---- MODULE Spec2Model ----
(***************************************************************************)
(* Model of the article scraper's two-tier orchestrator (ScrapeSmart) and  *)
(* of its browser tier (scrapeWithOptions, navigateAndExtract,             *)
(* retryNavigation, captureHTMLSnapshots, getBestHTML).                    *)
(*                                                                         *)
(* The repository holds two orchestrators: internal/scraper/scraper.go     *)
(* (lines 54-178, the "scraper" implementation below) and the file         *)
(* unnamed/part_002 (lines 53-146, the "part002" implementation, which     *)
(* has the time-limited mode).  Both are modelled; impl says which one     *)
(* serves the request.                                                     *)
(*                                                                         *)
(* Durations are integers in milliseconds.                                 *)
(***************************************************************************)
EXTENDS Integers, Sequences, FiniteSets, TLC

\* ------------------------------------------------------------- bounds

\* Largest overall budget (seconds until the deadline) a request starts with.
MaxBudgetSec == 30
\* Most alternate URLs GenerateAlternateURLs returns for one URL.
MaxAlternates == 2
\* Largest timeout (seconds) scrapeWithOptions is called with.
MaxBrowserTimeoutSec == 90

\* ---------------------------------------------------------- constants

Second == 1000

\* constants.go:8-9
HTTPTimeout == 12 * Second
BrowserTimeout == 60 * Second

\* calculateRemainingTime's value when the context has no deadline
NoDeadlineRemaining == 300 * Second

\* scraper.go:85, the minimal trimmed-length floor of tier-1 HTML
MinTrimmedHTML == 100

\* scraper.go:62, the random delay is 100 + (nanos % 400) milliseconds
JitterChoices == {100, 499}

\* constants.go:71-86
CloudflarePatterns ==
    { "CF_BLOCKED", "cloudflare", "HTTP 403", "all alternate URLs failed",
      "attention required", "cloudflare ray id",
      "what can i do to resolve this?", "why have i been blocked?",
      "performance & security by cloudflare", "verifying you are human",
      "verify you are human", "checking your browser",
      "please wait while we verify", "this may take a few seconds" }

\* ------------------------------------------------------------ helpers


\* Go's conversion of a float to time.Duration truncates toward zero.
TruncDiv(a, b) == IF a >= 0 THEN a \div b ELSE -((-a) \div b)

\* -------------------------------------------------------------- URLs

\* net/url.Parse on the target URLs the model draws from: whether it returns
\* an error, and what Hostname() of the parsed URL is.
URLs ==
    { [raw |-> "https://example.com/a",            parses |-> TRUE,  host |-> "example.com"],
      [raw |-> "https://news.example.org:8443/x",  parses |-> TRUE,  host |-> "news.example.org"],
      [raw |-> "https://example.com/%zz",          parses |-> FALSE, host |-> ""],
      [raw |-> ":no-scheme",                       parses |-> FALSE, host |-> ""] }

URLParseFails(u) == ~u.parses
Hostname(u) == u.host

\* ------------------------------------------------------------- errors

\* An error is the chain of its messages, outermost first (fmt.Errorf with
\* %w prepends a message); nil is the empty chain.
Nil == << >>
NewError(msg) == << msg >>
Wrap(msg, err) == << msg >> \o err
ErrorText(err) == { err[i] : i \in DOMAIN err }

ContextDeadlineExceeded == NewError("context deadline exceeded")

\* The Cloudflare patterns each message contains as a substring.
PatternsIn(msg) ==
    CASE msg = "HTTP 403 Forbidden"        -> {"HTTP 403"}
      [] msg = "all alternate URLs failed" -> {"all alternate URLs failed"}
      [] msg = "CF_BLOCKED"                -> {"CF_BLOCKED"}
      [] OTHER                             -> {}

\* IsCloudflareBlock: the error text matches one of CloudflarePatterns.
IsCloudflareBlock(err) ==
    /\ err # Nil
    /\ \E m \in ErrorText(err) : PatternsIn(m) \cap CloudflarePatterns # {}

\* What the static-fetch tier (FetchWithAlternatesGroup) can fail with.
Tier1Errors ==
    { NewError("all alternate URLs failed"),
      ContextDeadlineExceeded }

\* What the browser tier (ScrapeWithBrowserOptimized) can fail with.
Tier2Errors ==
    { NewError("all URLs failed or were blocked"),
      Wrap("failed to set up request blocking", ContextDeadlineExceeded),
      Wrap("failed to generate alternate URLs", NewError("HTTP 403 Forbidden")),
      Wrap("failed to set up request blocking", NewError("CF_BLOCKED")) }

\* ---------------------------------------------------- tier outputs

\* HTML as the orchestrator sees it: len(html) and len(TrimSpace(html)).
HTMLs ==
    { [len |-> 0,    trimmed |-> 0],
      [len |-> 120,  trimmed |-> 99],
      [len |-> 100,  trimmed |-> 100],
      [len |-> 5000, trimmed |-> 4900] }

\* An extraction result as the orchestrator sees it: len(Title), len(Content).
Results == [Title : {0, 40}, Content : {0, 900}]
EmptyResult == [Title |-> 0, Content |-> 0]

\* What the static-fetch tier hands back, (html, err), and what the extractor
\* makes of html.
Tier1Outcomes ==
    [html : {[len |-> 0, trimmed |-> 0]}, err : Tier1Errors, result : {EmptyResult}]
    \cup [html : HTMLs, err : {Nil}, result : Results]

\* What the browser tier hands back: an error, or html (never empty, see
\* scrapeWithOptions) of which ScrapeSmart reads only what the extractor
\* makes of it.
Tier2Outcomes ==
    [html : {[len |-> 0, trimmed |-> 0]}, err : Tier2Errors, result : {EmptyResult}]
    \cup [html : {[len |-> 5000, trimmed |-> 4900]}, err : {Nil}, result : Results]

\* ------------------------------------------------- documents in the browser

\* An HTML document as the browser tier reads it: len(html),
\* len(strings.TrimSpace(html)), and whether the cfBlock and the appError
\* regular expressions match it.
NoDoc ==      [raw |-> 0,    len |-> 0,    cfBlock |-> FALSE, appError |-> FALSE]
Skeleton ==   [raw |-> 310,  len |-> 300,  cfBlock |-> FALSE, appError |-> FALSE]
Challenge ==  [raw |-> 820,  len |-> 800,  cfBlock |-> TRUE,  appError |-> FALSE]
ErrorPage ==  [raw |-> 610,  len |-> 600,  cfBlock |-> FALSE, appError |-> TRUE]
Article ==    [raw |-> 5100, len |-> 5000, cfBlock |-> FALSE, appError |-> FALSE]
\* whitespace only: what an in-page fetch may answer
Blank ==      [raw |-> 2,    len |-> 0,    cfBlock |-> FALSE, appError |-> FALSE]

\* What outerHTML of the document element can be: never without text, the
\* element's own tags are part of it.
Pages == { Skeleton, Challenge, ErrorPage, Article }

\* What the browser can show at a later look, page being what it showed at
\* the last (NoDoc: nothing that can be read): a document appears, its
\* content is rendered, a challenge resolves, or the page stays as it is.
PageAfter(p) ==
    IF p = NoDoc THEN {NoDoc} \cup Pages
    ELSE IF p = Skeleton THEN { Skeleton, Article }
    ELSE IF p = Challenge THEN { Challenge, Article }
    ELSE { p }

\* What the in-page fetch of fetchHTMLViaJS can answer with.
JSResponses == { Blank, Challenge, Article }


\* ================================================================ state

VARIABLES
    impl,            \* "scraper" (scraper.go) or "part002" (unnamed/part_002)
    pc,              \* where ScrapeSmart is
    targetURL,       \* the request's URL, an element of URLs
    hasDeadline,     \* whether ctx carries a deadline
    left,            \* time until ctx's deadline, 0 once it has expired
    remainingAtStart,\* remainingTime as first computed (history)
    remainingTime,   \* ScrapeSmart's local remainingTime
    remainingAfterHTTP, \* the remaining time read when tier 1 has returned:
                     \* remainingAfterPhase1 (scraper.go:91,106),
                     \* remainingAfterHTTP (part_002:106)
    isTimeLimited,   \* part_002's local isTimeLimited
    httpTimeout,     \* the timeout given to tier 1
    browserTimeout,  \* the timeout given to tier 2
    fetchCalls,      \* calls of FetchWithAlternatesGroup
    browserCalls,    \* calls of ScrapeWithBrowserOptimized
    httpHTML,        \* the html tier 1 returned
    httpErr,         \* err at the end of phase 1
    err,             \* err of phase 2
    ret              \* what ScrapeSmart returned

orchVars == << impl, pc, targetURL, hasDeadline, left, remainingAtStart,
               remainingTime, remainingAfterHTTP, isTimeLimited, httpTimeout,
               browserTimeout, fetchCalls, browserCalls, httpHTML, httpErr,
               err, ret >>

\* The browser tier: one call of scrapeWithOptions.
VARIABLES
    bpc,             \* where scrapeWithOptions is
    bleft,           \* time until the deadline of scrapeWithOptions' ctx
    urlIndex,        \* 0 for the primary URL, i for the i-th alternate
    alternates,      \* len(alternates), -1 before GenerateAlternateURLs
    page,            \* the document the browser shows
    attempt,         \* retryNavigation's loop variable
    maxRetries,      \* navigateAndExtract's local maxRetries
    maxChallengeWait,\* captureHTMLSnapshots' local maxChallengeWait
    navErr,          \* captureHTMLSnapshots' err (of navigateWithTimeout)
    err2,            \* captureHTMLSnapshots' err2 (of the processing run)
    snapshots,       \* captureHTMLSnapshots' snapshot log
    initialHTML,     \* captureHTMLSnapshots' locals of the same names
    afterConsentHTML,
    afterScrollHTML,
    captureErr,      \* the error captureHTMLSnapshots returned
    navPage,         \* history: the document the browser showed when the
                     \* attempt's navigation and DOM wait ended
    fallbacksRun,    \* history: the last-resort fallbacks the attempt ran
    allSnapshots,    \* retryNavigation's allSnapshots
    lastErr,         \* retryNavigation's lastErr
    rnSnapshots,     \* the snapshots retryNavigation returned
    rnErr,           \* the error retryNavigation returned
    neHTML,          \* the html navigateAndExtract returned
    neErr,           \* the error navigateAndExtract returned
    primaryHTML,     \* scrapeWithOptions' html, of the primary URL
    primaryChallenge,\* history: challenge when the primary URL's capture ended
    challenge,       \* history: "none", or how the last challenge check of
                     \* the attempt ended, "resolved" or "unresolved"
    bret             \* what scrapeWithOptions returned

browserVars == << bpc, bleft, urlIndex, alternates, page, attempt, maxRetries,
                  maxChallengeWait, navErr, err2, snapshots, initialHTML,
                  afterConsentHTML, afterScrollHTML, captureErr, navPage,
                  fallbacksRun, allSnapshots,
                  lastErr, rnSnapshots, rnErr, neHTML, neErr, primaryHTML,
                  primaryChallenge, challenge, bret >>

\* The image engine: one call of ExtractImagesFromHTML.
VARIABLES
    ipc,             \* where ExtractImagesFromHTML is
    document,        \* doc, the parsed document
    config,          \* ie.config, fixed when the extractor is built
    pending,         \* the extraction goroutines that have not sent yet
    candidatesChan,  \* the buffered channel, a queue of candidate lists
    allCandidates,   \* ExtractImagesFromHTML's locals of the same names
    filtered,
    images           \* what ExtractImagesFromHTML returned

imageVars == << ipc, document, config, pending, candidatesChan, allCandidates,
                filtered, images >>

\* The stability loop: one call of waitForContentStabilityInline.
VARIABLES
    spc,             \* where waitForContentStabilityInline is
    sleft,           \* time until stabilityCtx's deadline
    cleft,           \* time until ctx's deadline
    previousLength,  \* the loop's locals of the same names
    stableCount,
    lastSnap,
    sret,            \* what waitForContentStabilityInline returned
    recent,          \* history: the last lengths read, at most 4
    streakSleeps,    \* history: check intervals slept since the read that
                     \* the reads after it stay within 5% from
    streakFailed     \* history: a read failed since that read

stabVars == << spc, sleft, cleft, previousLength, stableCount, lastSnap, sret,
               recent, streakSleeps, streakFailed >>

\* The strategy selector: one call of ExtractArticleWithMultipleStrategies.
VARIABLES
    selpc,           \* where ExtractArticleWithMultipleStrategies is
    found,           \* whether ExtractJSONLD found structured article data
    results,         \* ExtractArticleWithMultipleStrategies' locals
    strategies,
    bestResult,      \* selectBestResult's locals best and bestScore
    bestScore,
    scores,          \* history: the score selectBestResult gave each result
    selected         \* what selectBestResult returned

selVars == << selpc, found, results, strategies, bestResult, bestScore, scores,
              selected >>

\* The HTTP handler: one request to CloudRunHandler.Handler.
VARIABLES
    hpc,             \* where Handler is
    method,          \* r.Method
    keyValid,        \* h.validateAPIKey(requestKey)
    urlParam,        \* the url query parameter
    timeoutStr,      \* the timeout query parameter
    timeoutMs,       \* Handler's local timeoutMs
    scrapeRet,       \* what ScrapeSmartWithTimeout returned
    status           \* the status code written, 0 before

handlerVars == << hpc, method, keyValid, urlParam, timeoutStr, timeoutMs, scrapeRet,
                  status >>

engineVars == << imageVars, stabVars, selVars, handlerVars >>

vars == << orchVars, browserVars, engineVars >>

\* An absent URL: the empty string.
NoURL == [host |-> "", path |-> "", query |-> ""]
EmptyDocument ==
    [meta |-> << >>, jsonldImage |-> NoURL, headline |-> "", nodes |-> << >>,
     removed |-> {}]
EmptyConfig == [RatioWhitelist |-> {}, RatioTol |-> 0, AdSizes |-> {}]

ImagesIdle ==
    /\ ipc = "idle"
    /\ document = EmptyDocument
    /\ config = EmptyConfig
    /\ pending = {}
    /\ candidatesChan = << >>
    /\ allCandidates = << >>
    /\ filtered = << >>
    /\ images = << >>

\* *HTMLSnapshot: nil
NoSnap == [Stage |-> "", Length |-> 0, nil |-> TRUE]

StabilityIdle ==
    /\ spc = "idle"
    /\ sleft = 0
    /\ cleft = 0
    /\ previousLength = 0
    /\ stableCount = 0
    /\ lastSnap = NoSnap
    /\ sret = NoSnap
    /\ recent = << >>
    /\ streakSleeps = 0
    /\ streakFailed = FALSE

\* extractionResultWithStrategy: the zero value
NoBest == [Result |-> [Title |-> 0, Content |-> 0, Quality |-> 0], Strategy |-> ""]

SelectorIdle ==
    /\ selpc = "idle"
    /\ found = FALSE
    /\ results = << >>
    /\ strategies = << >>
    /\ bestResult = NoBest
    /\ bestScore = -1
    /\ scores = << >>
    /\ selected = NoBest

HandlerIdle ==
    /\ hpc = "idle"
    /\ method = ""
    /\ keyValid = FALSE
    /\ urlParam = ""
    /\ timeoutStr = ""
    /\ timeoutMs = 0
    /\ scrapeRet = [type |-> "none", err |-> << >>]
    /\ status = 0

EngineIdle == ImagesIdle /\ StabilityIdle /\ SelectorIdle /\ HandlerIdle

NoHTML == [len |-> 0, trimmed |-> 0]
NotReturned == [type |-> "none", err |-> Nil, Domain |-> "", result |-> EmptyResult]
ReturnResult(r) == [type |-> "ok", err |-> Nil, Domain |-> "", result |-> r]
ReturnError(e) == [type |-> "error", err |-> e, Domain |-> "", result |-> EmptyResult]
\* &models.CloudflareBlockError{Domain: ..., Err: err}
CloudflareBlockError(domain, e) ==
    [type |-> "CloudflareBlockError", err |-> e, Domain |-> domain, result |-> EmptyResult]

\* ------------------------------------------------------------- the clock

\* The deadline comes e milliseconds closer.
Elapse(l, e) == IF l > e THEN l - e ELSE 0

\* How long a tier takes: any whole number of seconds, its context's timeout
\* notwithstanding (the tiers return when they notice the cancellation, and
\* the extraction that follows takes time as well).
ElapsedChoices(l) ==
    IF hasDeadline THEN { k * Second : k \in 0 .. ((l + Second - 1) \div Second) }
    ELSE {0}

\* ctx.Err() # nil
CtxExpired(l) == hasDeadline /\ l = 0

calculateRemainingTime(l) == IF hasDeadline THEN l ELSE NoDeadlineRemaining

\* maxPercent is given in percent: 0.8 is 80.
adjustTimeoutForBudget(baseTimeout, remaining, maxPercent) ==
    LET maxAllowed == TruncDiv(remaining * maxPercent, 100)
    IN  IF maxAllowed < baseTimeout THEN maxAllowed ELSE baseTimeout

\* ================================================================= Init

\* The time until the deadline when ScrapeSmart is entered: the timeout the
\* caller put on the context, to the second, or a millisecond less than it.
Budgets ==
    { k * Second : k \in 0 .. MaxBudgetSec } \cup
    { k * Second - 1 : k \in 1 .. MaxBudgetSec }

OrchInit ==
    /\ impl \in {"scraper", "part002"}
    /\ pc = "validate"
    /\ targetURL \in URLs
    /\ hasDeadline \in BOOLEAN
    /\ left \in IF hasDeadline THEN Budgets ELSE {0}
    /\ remainingAtStart = 0
    /\ remainingTime = 0
    /\ remainingAfterHTTP = 0
    /\ isTimeLimited = FALSE
    /\ httpTimeout = 0
    /\ browserTimeout = 0
    /\ fetchCalls = 0
    /\ browserCalls = 0
    /\ httpHTML = NoHTML
    /\ httpErr = Nil
    /\ err = Nil
    /\ ret = NotReturned

\* No call of scrapeWithOptions is in progress: the browser tier is one of
\* the outcomes of Tier2Outcomes here.
NoSnapshot == [Stage |-> "", HTML |-> NoDoc, Length |-> 0]
BrowserNotReturned == [type |-> "none", html |-> NoDoc, err |-> Nil]

BrowserLocalsInit ==
    /\ urlIndex = 0
    /\ alternates = -1
    /\ page = NoDoc
    /\ attempt = 0
    /\ maxRetries = 0
    /\ maxChallengeWait = 0
    /\ navErr = Nil
    /\ err2 = Nil
    /\ snapshots = << >>
    /\ initialHTML = NoDoc
    /\ afterConsentHTML = NoDoc
    /\ afterScrollHTML = NoDoc
    /\ captureErr = Nil
    /\ navPage = NoDoc
    /\ fallbacksRun = << >>
    /\ allSnapshots = << >>
    /\ lastErr = Nil
    /\ rnSnapshots = << >>
    /\ rnErr = Nil
    /\ neHTML = NoDoc
    /\ neErr = Nil
    /\ primaryHTML = NoDoc
    /\ primaryChallenge = "none"
    /\ challenge = "none"
    /\ bret = BrowserNotReturned

BrowserIdle ==
    /\ bpc = "idle"
    /\ bleft = 0
    /\ BrowserLocalsInit

Init == OrchInit /\ BrowserIdle /\ EngineIdle

\* ====================================================== ScrapeSmart, both

\* ValidateURL without the check of url.Parse's error.
ValidateURL_NoCheck ==
    /\ pc = "validate"
    /\ ret' = ret
    /\ pc' = IF impl = "scraper" THEN "phase1" ELSE "allocate"
    /\ UNCHANGED << browserVars, engineVars >>
    /\ UNCHANGED << impl, targetURL, hasDeadline, left, remainingAtStart,
                    remainingTime, remainingAfterHTTP, isTimeLimited,
                    httpTimeout, browserTimeout, fetchCalls, browserCalls,
                    httpHTML, httpErr, err >>

\* scraper.go:55-58 and part_002:54-57
ValidateURL ==
    /\ pc = "validate"
    /\ IF URLParseFails(targetURL)
       THEN /\ ret' = ReturnError(Wrap("invalid URL", NewError("parse error")))
            /\ pc' = "done"
       ELSE /\ ret' = ret
            /\ pc' = IF impl = "scraper" THEN "phase1" ELSE "allocate"
    /\ UNCHANGED << browserVars, engineVars >>
    /\ UNCHANGED << impl, targetURL, hasDeadline, left, remainingAtStart,
                    remainingTime, remainingAfterHTTP, isTimeLimited,
                    httpTimeout, browserTimeout, fetchCalls, browserCalls,
                    httpHTML, httpErr, err >>

\* ------------------------------------------- ScrapeSmart of scraper.go

\* Every tier-1 HTML counts as a failure.
EmptyOrMinimalHTML_Always(html) == TRUE

\* scraper.go:85, tier-1 HTML that counts as a failure
EmptyOrMinimalHTML(html) == html.len = 0 \/ html.trimmed < MinTrimmedHTML

\* scraper.go:95 and 145, the extraction found neither title nor content
ExtractionEmpty(r) == r.Content = 0 /\ r.Title = 0

\* Phase 1 skipped with up to 10 seconds for it.
SkipPhase1_Under10s(t) == t < 10 * Second

\* scraper.go:72, if httpTimeout < 1*time.Second
SkipPhase1(t) == t < 1 * Second

\* scraper.go:60-81: the random delay, the budget of phase 1, and either the
\* call of the static-fetch tier or its skipping.
Phase1Start ==
    /\ pc = "phase1"
    /\ impl = "scraper"
    /\ \E randomDelay \in JitterChoices :
         LET l == IF hasDeadline THEN Elapse(left, randomDelay) ELSE left
             r == calculateRemainingTime(l)
             t == adjustTimeoutForBudget(HTTPTimeout, r, 80)
         IN  /\ left' = l
             /\ remainingTime' = r
             /\ remainingAtStart' = r
             /\ httpTimeout' = t
             /\ IF SkipPhase1(t)
                THEN /\ pc' = "phase2"
                     /\ fetchCalls' = fetchCalls
                ELSE /\ pc' = "fetching"
                     /\ fetchCalls' = fetchCalls + 1
    /\ UNCHANGED << browserVars, engineVars >>
    /\ UNCHANGED << impl, targetURL, hasDeadline, remainingAfterHTTP,
                    isTimeLimited, browserTimeout, browserCalls, httpHTML,
                    httpErr, err, ret >>

\* scraper.go:83-104: err after the static-fetch tier returned (html, err)
\* and, for usable html, the extractor returned result.
Phase1Err(html, e, result) ==
    IF e # Nil THEN e
    ELSE IF EmptyOrMinimalHTML(html)
         THEN NewError("HTTP fetch returned empty or minimal HTML")
    ELSE IF ExtractionEmpty(result)
         THEN NewError("content extraction returned empty results")
    ELSE Nil

\* scraper.go:79-113: the static-fetch tier returns; success, the expiry
\* check, or the fall through to phase 2.
Phase1Return ==
    /\ pc = "fetching"
    /\ impl = "scraper"
    /\ \E o \in Tier1Outcomes, e \in ElapsedChoices(left) :
         LET l == Elapse(left, e)
             failure == Phase1Err(o.html, o.err, o.result)
         IN  /\ left' = l
             /\ httpHTML' = o.html
             /\ httpErr' = failure
             /\ remainingAfterHTTP' = calculateRemainingTime(l)
             /\ IF failure = Nil
                THEN /\ ret' = ReturnResult(o.result)
                     /\ pc' = "done"
                ELSE IF CtxExpired(l)
                THEN /\ ret' = ReturnError(
                                 Wrap("scraping failed: parent context expired during HTTP phase",
                                      ContextDeadlineExceeded))
                     /\ pc' = "done"
                ELSE /\ ret' = ret
                     /\ pc' = "phase2"
    /\ UNCHANGED << browserVars, engineVars >>
    /\ UNCHANGED << impl, targetURL, hasDeadline, remainingAtStart,
                    remainingTime, isTimeLimited, httpTimeout, browserTimeout,
                    fetchCalls, browserCalls, err >>

\* MaxBrowserTime without the cleanup buffer.
MaxBrowserTime_NoBuffer(remaining) == remaining

\* scraper.go:120-124, the time left for the browser after the cleanup buffer
MaxBrowserTime(remaining) == remaining - 5 * Second

\* scraper.go:115-133: the budget of phase 2, and either the insufficient
\* budget failure or the call of the browser tier.
Phase2Start ==
    /\ pc = "phase2"
    /\ impl = "scraper"
    /\ LET r == calculateRemainingTime(left)
           maxBrowserTime == MaxBrowserTime(r)
       IN  /\ remainingTime' = r
           /\ IF maxBrowserTime < 1 * Second
              THEN /\ ret' = ReturnError(NewError(
                              "scraping failed: insufficient time budget for browser phase"))
                   /\ pc' = "done"
                   /\ UNCHANGED << browserTimeout, browserCalls >>
              ELSE /\ browserTimeout' = adjustTimeoutForBudget(BrowserTimeout, maxBrowserTime, 100)
                   /\ browserCalls' = browserCalls + 1
                   /\ pc' = "browsing"
                   /\ ret' = ret
    /\ UNCHANGED << browserVars, engineVars >>
    /\ UNCHANGED << impl, targetURL, hasDeadline, left, remainingAtStart,
                    remainingAfterHTTP, isTimeLimited, httpTimeout, fetchCalls,
                    httpHTML, httpErr, err >>

\* scraper.go:136-154: err after the browser tier returned
Phase2Err(e, result) ==
    IF e # Nil THEN e
    ELSE IF ExtractionEmpty(result)
         THEN NewError("content extraction returned empty results")
    ELSE Nil

\* Phase2Failure without the Cloudflare classification.
Phase2Failure_NoBlockCheck(failure, expired) ==
    IF expired
    THEN ReturnError(Wrap("scraping failed: parent context expired during browser phase",
                          ContextDeadlineExceeded))
    ELSE ReturnError(Wrap("scraping failed - HTTP phase failed, browser phase also failed",
                          failure))

\* Phase2Failure with the Cloudflare classification ahead of the expiry check.
Phase2Failure_BlockFirst(failure, expired) ==
    IF IsCloudflareBlock(failure)
    THEN CloudflareBlockError(Hostname(targetURL), failure)
    ELSE IF expired
    THEN ReturnError(Wrap("scraping failed: parent context expired during browser phase",
                          ContextDeadlineExceeded))
    ELSE ReturnError(Wrap("scraping failed - HTTP phase failed, browser phase also failed",
                          failure))

\* scraper.go:159-177: what ScrapeSmart returns for a failed phase 2
Phase2Failure(failure, expired) ==
    IF expired
    THEN ReturnError(Wrap("scraping failed: parent context expired during browser phase",
                          ContextDeadlineExceeded))
    ELSE IF IsCloudflareBlock(failure)
    THEN CloudflareBlockError(Hostname(targetURL), failure)
    ELSE ReturnError(Wrap("scraping failed - HTTP phase failed, browser phase also failed",
                          failure))

\* scraper.go:133-177: the browser tier returns.
Phase2Return ==
    /\ pc = "browsing"
    /\ impl = "scraper"
    /\ \E o \in Tier2Outcomes, e \in ElapsedChoices(left) :
         LET l == Elapse(left, e)
             failure == Phase2Err(o.err, o.result)
         IN  /\ left' = l
             /\ err' = failure
             /\ ret' = IF failure = Nil THEN ReturnResult(o.result)
                       ELSE Phase2Failure(failure, CtxExpired(l))
             /\ pc' = "done"
    /\ UNCHANGED << browserVars, engineVars >>
    /\ UNCHANGED << impl, targetURL, hasDeadline, remainingAtStart,
                    remainingTime, remainingAfterHTTP, isTimeLimited,
                    httpTimeout, browserTimeout, fetchCalls, browserCalls,
                    httpHTML, httpErr >>

\* --------------------------------------- ScrapeSmart of unnamed/part_002

\* TimeLimitedBrowserTimeout that hands out the 12s whatever the budget.
TimeLimitedBrowserTimeout_Fixed(browserBudget) == 12 * Second

\* part_002:80-87, the browser timeout of the time-limited mode
TimeLimitedBrowserTimeout(browserBudget) ==
    IF browserBudget >= 12 * Second
    THEN adjustTimeoutForBudget(12 * Second, browserBudget, 90)
    ELSE 0

\* part_002:59-98: the budget of both tiers, and the call of the
\* static-fetch tier.
Allocate ==
    /\ pc = "allocate"
    /\ impl = "part002"
    /\ LET r == calculateRemainingTime(left)
           limited == r < 25 * Second
           availableTime == r - 4 * Second
           h == adjustTimeoutForBudget(8 * Second, availableTime, 38)
           browserBudget == availableTime - h - 1 * Second
       IN  /\ remainingTime' = r
           /\ remainingAtStart' = r
           /\ isTimeLimited' = limited
           /\ httpTimeout' = IF limited THEN h ELSE HTTPTimeout
           /\ browserTimeout' = IF limited THEN TimeLimitedBrowserTimeout(browserBudget)
                                ELSE BrowserTimeout
    /\ fetchCalls' = fetchCalls + 1
    /\ pc' = "fetching"
    /\ UNCHANGED << browserVars, engineVars >>
    /\ UNCHANGED << impl, targetURL, hasDeadline, left, remainingAfterHTTP,
                    browserCalls, httpHTML, httpErr, err, ret >>

\* part_002:107-118, the browser phase is skipped
SkipBrowserPhase(limited, remaining, timeout) ==
    limited /\ (remaining < 12 * Second \/ timeout = 0 \/ timeout < 6 * Second)

\* part_002:98-127: the static-fetch tier returns; success, the skipping of
\* the browser phase, or the call of the browser tier.
FetchReturn ==
    /\ pc = "fetching"
    /\ impl = "part002"
    /\ \E o \in Tier1Outcomes, e \in ElapsedChoices(left) :
         LET l == Elapse(left, e)
             r == calculateRemainingTime(l)
         IN  /\ left' = l
             /\ httpHTML' = o.html
             /\ httpErr' = o.err
             /\ IF o.err = Nil
                THEN /\ ret' = ReturnResult(o.result)
                     /\ pc' = "done"
                     /\ UNCHANGED << remainingAfterHTTP, browserCalls >>
                ELSE /\ remainingAfterHTTP' = r
                     /\ IF SkipBrowserPhase(isTimeLimited, r, browserTimeout)
                        THEN /\ ret' = ReturnError(NewError(
                                         "scraping failed: insufficient time remaining"))
                             /\ pc' = "done"
                             /\ browserCalls' = browserCalls
                        ELSE /\ ret' = ret
                             /\ pc' = "browsing"
                             /\ browserCalls' = browserCalls + 1
    /\ UNCHANGED << browserVars, engineVars >>
    /\ UNCHANGED << impl, targetURL, hasDeadline, remainingAtStart,
                    remainingTime, isTimeLimited, httpTimeout, browserTimeout,
                    fetchCalls, err >>

\* part_002:127-145: the browser tier returns.
BrowserReturn ==
    /\ pc = "browsing"
    /\ impl = "part002"
    /\ \E o \in Tier2Outcomes, e \in ElapsedChoices(left) :
         /\ left' = Elapse(left, e)
         /\ err' = o.err
         /\ ret' = IF o.err = Nil THEN ReturnResult(o.result)
                   ELSE IF IsCloudflareBlock(o.err)
                   THEN CloudflareBlockError(Hostname(targetURL), o.err)
                   ELSE ReturnError(Wrap("scraping failed", o.err))
         /\ pc' = "done"
    /\ UNCHANGED << browserVars, engineVars >>
    /\ UNCHANGED << impl, targetURL, hasDeadline, remainingAtStart,
                    remainingTime, remainingAfterHTTP, isTimeLimited,
                    httpTimeout, browserTimeout, fetchCalls, browserCalls,
                    httpHTML, httpErr >>

\* ================================================================= Spec

Next ==
    \/ ValidateURL
    \/ Phase1Start
    \/ Phase1Return
    \/ Phase2Start
    \/ Phase2Return
    \/ Allocate
    \/ FetchReturn
    \/ BrowserReturn

Spec == Init /\ [][Next]_vars

\* ============================================================ browser tier

\* browser.go:699-702 and 723-726: the regular expressions themselves are
\* compiled by config.CompileRegexes; a document either matches or not.
\* No document looks like a block page.
LooksLikeCFBlock_Never(html) == FALSE

LooksLikeCFBlock(html) == html.cfBlock

LooksLikeApplicationError(html) == html.appError

\* Every snapshot staged "stable".
HTMLSnapshot_Stable(stage, html) == [Stage |-> "stable", HTML |-> html, Length |-> html.len]

\* HTMLSnapshot{HTML: html, Stage: stage, Length: len(strings.TrimSpace(html))}
HTMLSnapshot(stage, html) == [Stage |-> stage, HTML |-> html, Length |-> html.len]

\* browser.go:1596-1611; a stage the map does not hold has priority 0
stagePriority(stage) ==
    CASE stage = "stable" -> 6
      [] stage = "stable-timeout" -> 5
      [] stage = "stable-interrupted" -> 4
      [] stage = "after-scroll" -> 3
      [] stage = "after-consent" -> 2
      [] stage = "periodic" -> 1
      [] stage \in {"initial", "minimal", "stability-check"} -> 0
      [] stage \in {"minimal-fallback", "fallback", "final"} -> -1
      [] stage \in {"js-fetch-fallback", "final-fallback"} -> -2
      [] OTHER -> 0

\* browser.go:1613-1637, the loop of getBestHTML from its i-th snapshot on
RECURSIVE BestFrom(_, _, _, _)
BestFrom(snaps, i, best, bestPriority) ==
    IF i > Len(snaps) THEN best
    ELSE LET snap == snaps[i]
             priority == stagePriority(snap.Stage)
         IN  IF LooksLikeApplicationError(snap.HTML) /\ snap.Length < 1000
             THEN BestFrom(snaps, i + 1, best, bestPriority)
             ELSE IF priority > bestPriority
             THEN BestFrom(snaps, i + 1, snap, priority)
             ELSE IF priority = bestPriority /\ best # NoSnapshot
                     /\ snap.Length > best.Length
             THEN BestFrom(snaps, i + 1, snap, bestPriority)
             ELSE BestFrom(snaps, i + 1, best, bestPriority)

\* The first snapshot, whatever its stage.
getBestHTML_First(snaps) == IF Len(snaps) = 0 THEN NoSnapshot ELSE snaps[1]

\* browser.go:1591-1638; NoSnapshot is the nil pointer
getBestHTML(snaps) ==
    IF Len(snaps) = 0 THEN NoSnapshot ELSE BestFrom(snaps, 1, NoSnapshot, -1)

\* Whether chromedp.Location and chromedp.OuterHTML succeed: there is a
\* document to read and ctx is not done.
Readable(l, p) == l > 0 /\ p # NoDoc

\* How much of ctx's time a step leaves: it takes its usual time d, or an
\* operation of it hangs until ctx is done.
After(l, d) == { Elapse(l, d), 0 }

AtLeast(d, floor) == IF d < floor THEN floor ELSE d

\* browser.go:1824-1843; the ctx of scrapeWithOptions always has a deadline
calculateChallengeWait(l) ==
    IF l > 5 * Second
    THEN AtLeast(IF l - 5 * Second < 30 * Second THEN l - 5 * Second
                 ELSE 30 * Second,
                 3 * Second)
    ELSE 3 * Second

\* browser.go:1033-1039
NavTimeout(remaining) ==
    IF remaining < 20 * Second + 5 * Second
    THEN AtLeast(remaining - 5 * Second, 5 * Second)
    ELSE 20 * Second

\* browser.go:1096-1103
CFWait(remaining) ==
    IF remaining < 30 * Second + 5 * Second
    THEN AtLeast(remaining - 5 * Second, 5 * Second)
    ELSE 30 * Second

\* browser.go:1055, captureHTMLPeriodically(ctx, 2s, 5s) looks at the page
\* at 0s, 2s and 4s
PeriodicCaptures == (5 * Second) \div (2 * Second) + 1

\* browser.go:1706-1741: the loop returns when it finds its 5s passed, after
\* the wait that follows its last look
PeriodicDuration == PeriodicCaptures * (2 * Second)

BrowserOK(html) == [type |-> "ok", html |-> html, err |-> Nil]
BrowserError(e) == [type |-> "error", html |-> NoDoc, err |-> e]

captureLocals == << maxChallengeWait, navErr, err2, snapshots, initialHTML,
                    afterConsentHTML, afterScrollHTML, captureErr, navPage,
                    fallbacksRun >>
retryLocals == << attempt, maxRetries, allSnapshots, lastErr >>
scrapeLocals == << urlIndex, alternates, primaryHTML, primaryChallenge, bret >>
returned == << rnSnapshots, rnErr, neHTML, neErr >>

\* browser.go:285-317: the context with its timeout, the browser, and the
\* request blocking.
BrowserSetup ==
    /\ bpc = "setup"
    /\ \E l \in After(bleft, 1 * Second), failure \in {Nil, NewError("exec: chrome not found")} :
         LET e == IF l = 0 THEN ContextDeadlineExceeded ELSE failure
         IN  /\ bleft' = l
             /\ IF e = Nil
                THEN /\ bpc' = "extract"
                     /\ bret' = bret
                ELSE /\ bpc' = "done"
                     /\ bret' = BrowserError(Wrap("failed to set up request blocking", e))
    /\ UNCHANGED << page, challenge, captureLocals, retryLocals, returned,
                    urlIndex, alternates, primaryHTML, primaryChallenge >>
    /\ UNCHANGED << orchVars, engineVars >>

\* Three attempts whatever time remains.
MaxRetriesFor_Always3(remaining) == 3

\* browser.go:398-406: maxRetries, fewer when time is short
MaxRetriesFor(remaining) ==
    IF remaining < 30 * Second THEN 1
    ELSE IF remaining < 60 * Second THEN 2
    ELSE 3

\* browser.go:396-408: navigateAndExtract chooses maxRetries and enters
\* retryNavigation (936-939).
NavigateAndExtractStart ==
    /\ bpc = "extract"
    /\ maxRetries' = MaxRetriesFor(calculateRemainingTime(bleft))
    /\ attempt' = 0
    /\ allSnapshots' = << >>
    /\ lastErr' = Nil
    /\ bpc' = "attempt"
    /\ UNCHANGED << bleft, page, challenge, captureLocals, returned, scrapeLocals >>
    /\ UNCHANGED << orchVars, engineVars >>

\* How navigateWithTimeout (1642-1665) can end, with l of ctx's time left
\* after it: the page loads; the navigation's own timeout passes, which is
\* no error; the navigation fails; ctx is done, and select takes either the
\* navigation's result, a timeout, or ctx.Err().
Navigations(remaining, l0) ==
    LET quick == Elapse(l0, 1 * Second)
        slow == Elapse(l0, NavTimeout(remaining))
    IN  (IF quick > 0
         THEN [left : {quick}, err : {Nil}, page : Pages]
              \cup [left : {quick}, err : {NewError("net::ERR_CONNECTION_REFUSED")},
                    page : {NoDoc}]
         ELSE {})
        \cup (IF slow > 0
              THEN [left : {slow}, err : {Nil}, page : {NoDoc, Skeleton}]
              ELSE {})
        \cup [left : {0}, err : {Nil, ContextDeadlineExceeded}, page : {NoDoc, Skeleton}]

\* browser.go:941-953 and 1004-1052: the backoff before a further attempt,
\* then captureHTMLSnapshots up to the navigation and the wait for
\* DOMContentLoaded.
AttemptStart ==
    /\ bpc = "attempt"
    /\ LET afterBackoff == IF attempt > 0
                           THEN Elapse(bleft, (2 ^ attempt) * Second)
                           ELSE bleft
           remaining == calculateRemainingTime(afterBackoff)
       IN  /\ maxChallengeWait' = calculateChallengeWait(afterBackoff)
           /\ \E nav \in Navigations(remaining, afterBackoff) :
                /\ bleft' = nav.left
                /\ navErr' = nav.err
                /\ page' = nav.page
                /\ navPage' = nav.page
    /\ err2' = Nil
    /\ snapshots' = << >>
    /\ initialHTML' = NoDoc
    /\ afterConsentHTML' = NoDoc
    /\ afterScrollHTML' = NoDoc
    /\ captureErr' = Nil
    /\ fallbacksRun' = << >>
    /\ challenge' = "none"
    /\ bpc' = "periodic"
    /\ UNCHANGED << retryLocals, returned, scrapeLocals >>
    /\ UNCHANGED << orchVars, engineVars >>

\* browser.go:1054-1059 and 1695-1743: the periodic captures, which end with
\* the first document of more than 500 characters.
CapturePeriodic ==
    /\ bpc = "periodic"
    /\ IF Readable(bleft, page) /\ page.len > 500
       THEN /\ snapshots' = Append(snapshots, HTMLSnapshot("periodic", page))
            /\ bleft' = bleft
       ELSE /\ bleft' \in After(bleft, PeriodicDuration)
            /\ snapshots' = IF Readable(bleft, page) /\ page.len > 0
                            THEN snapshots \o [i \in 1 .. PeriodicCaptures |->
                                                HTMLSnapshot("periodic", page)]
                            ELSE snapshots
    /\ bpc' = "initial"
    /\ UNCHANGED << page, challenge, maxChallengeWait, navErr, err2, initialHTML,
                    afterConsentHTML, afterScrollHTML, captureErr,
                    navPage, fallbacksRun,
                    retryLocals, returned, scrapeLocals >>
    /\ UNCHANGED << orchVars, engineVars >>

\* browser.go:1061-1084: the initial capture.
CaptureInitial ==
    /\ bpc = "initial"
    /\ IF Readable(bleft, page)
       THEN /\ initialHTML' = page
            /\ snapshots' = IF page.len > 0
                            THEN Append(snapshots, HTMLSnapshot("initial", page))
                            ELSE snapshots
       ELSE UNCHANGED << initialHTML, snapshots >>
    /\ bpc' = "challenge"
    /\ UNCHANGED << bleft, page, challenge, maxChallengeWait, navErr, err2,
                    afterConsentHTML, afterScrollHTML, captureErr,
                    navPage, fallbacksRun,
                    retryLocals, returned, scrapeLocals >>
    /\ UNCHANGED << orchVars, engineVars >>

\* browser.go:1090-1116: the challenge check, its wait and its second look.
ChallengeCheck ==
    /\ bpc = "challenge"
    /\ IF Readable(bleft, page) /\ LooksLikeCFBlock(page)
       THEN \E p \in PageAfter(page) :
              /\ bleft' = Elapse(bleft, CFWait(calculateRemainingTime(bleft)))
              /\ page' = p
              /\ challenge' = IF bleft' = 0 \/ LooksLikeCFBlock(p)
                              THEN "unresolved" ELSE "resolved"
       ELSE UNCHANGED << bleft, page, challenge >>
    /\ bpc' = "waits"
    /\ UNCHANGED << captureLocals, retryLocals, returned, scrapeLocals >>
    /\ UNCHANGED << orchVars, engineVars >>

\* browser.go:1118-1181: the waits for the ready state, the network and the
\* content selectors.
ReadyWaits ==
    /\ bpc = "waits"
    /\ bleft' \in After(bleft, 1 * Second)
    /\ page' \in PageAfter(page)
    /\ bpc' = "consent"
    /\ UNCHANGED << challenge, captureLocals, retryLocals, returned, scrapeLocals >>
    /\ UNCHANGED << orchVars, engineVars >>

\* browser.go:1183-1187: the consent dialogs and the sleep that follows; an
\* error of either ends the processing run.
HandleConsent ==
    /\ bpc = "consent"
    /\ \E l \in After(bleft, 1 * Second),
          failure \in {Nil, NewError("could not evaluate consent script")} :
         LET e2 == IF l = 0 THEN ContextDeadlineExceeded ELSE failure
         IN  /\ bleft' = l
             /\ err2' = IF e2 = Nil THEN Nil ELSE Wrap("processing phase failed", e2)
             /\ bpc' = IF e2 = Nil THEN "afterConsent" ELSE "fallbacks"
    /\ UNCHANGED << page, challenge, maxChallengeWait, navErr, snapshots,
                    initialHTML, afterConsentHTML, afterScrollHTML, captureErr,
                    navPage, fallbacksRun,
                    retryLocals, returned, scrapeLocals >>
    /\ UNCHANGED << orchVars, engineVars >>

\* browser.go:1189-1212: the capture after consent.
CaptureAfterConsent ==
    /\ bpc = "afterConsent"
    /\ IF Readable(bleft, page)
       THEN /\ afterConsentHTML' = page
            /\ snapshots' = IF page.len > 0
                            THEN Append(snapshots, HTMLSnapshot("after-consent", page))
                            ELSE snapshots
       ELSE UNCHANGED << afterConsentHTML, snapshots >>
    /\ bpc' = "scroll"
    /\ UNCHANGED << bleft, page, challenge, maxChallengeWait, navErr, err2,
                    initialHTML, afterScrollHTML, captureErr,
                    navPage, fallbacksRun,
                    retryLocals, returned, scrapeLocals >>
    /\ UNCHANGED << orchVars, engineVars >>

\* browser.go:1214-1238: the scroll, skipped with less than 10s left.
Scroll ==
    /\ bpc = "scroll"
    /\ bleft' \in IF calculateRemainingTime(bleft) < 10 * Second THEN {bleft}
                  ELSE After(bleft, 2 * Second)
    /\ bpc' = "afterScroll"
    /\ UNCHANGED << page, challenge, captureLocals, retryLocals, returned,
                    scrapeLocals >>
    /\ UNCHANGED << orchVars, engineVars >>

\* browser.go:1240-1263: the capture after the scroll.
CaptureAfterScroll ==
    /\ bpc = "afterScroll"
    /\ IF Readable(bleft, page)
       THEN /\ afterScrollHTML' = page
            /\ snapshots' = IF page.len > 0
                            THEN Append(snapshots, HTMLSnapshot("after-scroll", page))
                            ELSE snapshots
       ELSE UNCHANGED << afterScrollHTML, snapshots >>
    /\ bpc' = "stability"
    /\ UNCHANGED << bleft, page, challenge, maxChallengeWait, navErr, err2,
                    initialHTML, afterConsentHTML, captureErr,
                    navPage, fallbacksRun,
                    retryLocals, returned, scrapeLocals >>
    /\ UNCHANGED << orchVars, engineVars >>

\* browser.go:1265-1282 and 1431-1520: the stability loop. It ends with
\* three like lengths in a row after the first, or when stabilityCtx or ctx
\* is done; with both done, select takes either case. lastSnap is the last
\* document the loop could read.
WaitForContentStability ==
    /\ bpc = "stability"
    /\ \E p \in PageAfter(page) :
         /\ page' = p
         /\ \/ /\ Readable(bleft, p)
               /\ p.len > 0
               /\ bleft > 2 * Second
               /\ maxChallengeWait > 2 * Second
               /\ bleft' = Elapse(bleft, 2 * Second)
               /\ snapshots' = Append(snapshots, HTMLSnapshot("stable", p))
            \/ /\ bleft' \in After(bleft, maxChallengeWait)
               /\ \E stage \in IF bleft' = 0
                               THEN {"stable-timeout", "stable-interrupted"}
                               ELSE {"stable-timeout"} :
                    snapshots' = IF Readable(bleft, p)
                                 THEN Append(snapshots, HTMLSnapshot(stage, p))
                                 ELSE snapshots
    /\ bpc' = "fallbacks"
    /\ UNCHANGED << challenge, maxChallengeWait, navErr, err2, initialHTML,
                    afterConsentHTML, afterScrollHTML, captureErr,
                    navPage, fallbacksRun,
                    retryLocals, returned, scrapeLocals >>
    /\ UNCHANGED << orchVars, engineVars >>

\* browser.go:1284-1290, captureErrors as one chain of messages
CaptureErrors(e1, e2) ==
    (IF e1 # Nil THEN Wrap("initial navigation failed", e1) ELSE Nil) \o e2

\* browser.go:1747-1783: what minimalNavigation can return as html
MinimalNavigations(l) == {NoDoc} \cup (IF l > 0 THEN Pages ELSE {})

\* browser.go:1787-1821: what fetchHTMLViaJS can return
JSFetches(l) == {NoDoc} \cup (IF l > 0 THEN JSResponses ELSE {})

\* The errors reported whatever was captured.
CombinedErr_Always(captureErrors, snaps) ==
    IF captureErrors # Nil THEN Wrap("capture errors", captureErrors) ELSE Nil

\* browser.go:1359-1364: an error only with no snapshot at all
CombinedErr(captureErrors, snaps) ==
    IF captureErrors # Nil /\ Len(snaps) = 0
    THEN Wrap("capture errors", captureErrors)
    ELSE Nil

\* The fallbacks whatever was captured.
NeedsFallback_Always(snaps) == TRUE

\* browser.go:1296, if len(snapshots) == 0
NeedsFallback(snaps) == Len(snaps) = 0

\* browser.go:1296-1368: with no snapshot the fallback chain, then the error
\* captureHTMLSnapshots returns.
FallbackChain ==
    /\ bpc = "fallbacks"
    /\ IF ~NeedsFallback(snapshots)
       THEN UNCHANGED << snapshots, page, bleft, fallbacksRun >>
       ELSE LET bestHTML == IF afterScrollHTML # NoDoc THEN afterScrollHTML
                            ELSE IF afterConsentHTML # NoDoc THEN afterConsentHTML
                            ELSE initialHTML
            IN  IF bestHTML # NoDoc
                THEN /\ snapshots' = Append(snapshots, HTMLSnapshot("fallback", bestHTML))
                     /\ UNCHANGED << page, bleft, fallbacksRun >>
                ELSE \E minHTML \in MinimalNavigations(bleft) :
                       /\ page' = IF minHTML # NoDoc THEN minHTML ELSE page
                       /\ bleft' = Elapse(bleft, 1 * Second)
                       /\ IF minHTML.raw > 0
                          THEN /\ snapshots' = Append(snapshots,
                                                 HTMLSnapshot("minimal-fallback", minHTML))
                               /\ fallbacksRun' = << "minimalNavigation" >>
                          ELSE \E jsHTML \in JSFetches(bleft) :
                                 IF jsHTML.raw > 0
                                 THEN /\ snapshots' = Append(snapshots,
                                            HTMLSnapshot("js-fetch-fallback", jsHTML))
                                      /\ fallbacksRun' = << "minimalNavigation",
                                                            "fetchHTMLViaJS" >>
                                 ELSE /\ snapshots' =
                                           IF Readable(bleft, page) /\ page.len > 0
                                           THEN Append(snapshots,
                                                  HTMLSnapshot("final-fallback", page))
                                           ELSE snapshots
                                      /\ fallbacksRun' = << "minimalNavigation",
                                                            "fetchHTMLViaJS",
                                                            "captureSnapshotFallback" >>
    /\ captureErr' = CombinedErr(CaptureErrors(navErr, err2), snapshots')
    /\ bpc' = "captured"
    /\ UNCHANGED << challenge, maxChallengeWait, navErr, err2, initialHTML,
                    afterConsentHTML, afterScrollHTML, navPage,
                    retryLocals, returned, scrapeLocals >>
    /\ UNCHANGED << orchVars, engineVars >>

\* browser.go:975-979: strings.Contains of the error's text, per message
RetryWords(msg) ==
    CASE msg = "context deadline exceeded" -> {"context deadline exceeded"}
      [] msg = "net::ERR_CONNECTION_REFUSED" -> {}
      [] OTHER -> {}

ShouldRetry(e, snaps, n, max) ==
    \/ \E i \in 1 .. Len(e) :
          RetryWords(e[i]) \cap {"timeout", "context deadline exceeded",
                                 "network", "connection"} # {}
    \/ (Len(snaps) = 0 /\ n < max - 1)

\* browser.go:953-999: retryNavigation takes what the attempt returned, and
\* returns or goes round again. The locals of captureHTMLSnapshots are gone.
CaptureReturn ==
    /\ bpc = "captured"
    /\ LET all == allSnapshots \o snapshots
           best == getBestHTML(all)
       IN  /\ allSnapshots' = all
           /\ IF captureErr = Nil /\ Len(snapshots) > 0
              THEN /\ rnSnapshots' = snapshots
                   /\ rnErr' = Nil
                   /\ bpc' = "retried"
                   /\ UNCHANGED << lastErr, attempt >>
              ELSE /\ lastErr' = captureErr
                   /\ IF ~ShouldRetry(captureErr, snapshots, attempt, maxRetries)
                         \/ attempt >= maxRetries - 1
                      THEN /\ IF Len(all) > 0 /\ best # NoSnapshot
                              THEN /\ rnSnapshots' = << best >>
                                   /\ rnErr' = Nil
                              ELSE /\ rnSnapshots' = all
                                   /\ rnErr' = captureErr
                           /\ bpc' = "retried"
                           /\ attempt' = attempt
                      ELSE /\ attempt' = attempt + 1
                           /\ bpc' = "attempt"
                           /\ UNCHANGED << rnSnapshots, rnErr >>
    /\ maxChallengeWait' = 0
    /\ navErr' = Nil
    /\ err2' = Nil
    /\ snapshots' = << >>
    /\ initialHTML' = NoDoc
    /\ afterConsentHTML' = NoDoc
    /\ afterScrollHTML' = NoDoc
    /\ captureErr' = Nil
    /\ navPage' = NoDoc
    /\ fallbacksRun' = << >>
    /\ UNCHANGED << bleft, page, challenge, maxRetries, neHTML, neErr, scrapeLocals >>
    /\ UNCHANGED << orchVars, engineVars >>

\* browser.go:408-434: navigateAndExtract returns. The locals of
\* retryNavigation are gone.
NavigateAndExtractReturn ==
    /\ bpc = "retried"
    /\ LET best == getBestHTML(rnSnapshots)
       IN  IF rnErr # Nil
           THEN IF Len(rnSnapshots) > 0 /\ best # NoSnapshot /\ best.HTML.raw > 0
                THEN /\ neHTML' = best.HTML
                     /\ neErr' = Nil
                ELSE /\ neHTML' = NoDoc
                     /\ neErr' = Wrap("navigation failed", rnErr)
           ELSE IF best # NoSnapshot
                THEN /\ neHTML' = best.HTML
                     /\ neErr' = Nil
                ELSE /\ neHTML' = NoDoc
                     /\ neErr' = NewError("no HTML captured from any snapshot")
    /\ attempt' = 0
    /\ maxRetries' = 0
    /\ allSnapshots' = << >>
    /\ lastErr' = Nil
    /\ bpc' = "extracted"
    /\ UNCHANGED << bleft, page, challenge, captureLocals, rnSnapshots, rnErr,
                    scrapeLocals >>
    /\ UNCHANGED << orchVars, engineVars >>

\* UsableHTML without the test for a block page.
UsableHTML_Blocked(html) == html.raw > 0

\* browser.go:335, 348, 368, 377: len(html) > 0 && !b.LooksLikeCFBlock(html)
UsableHTML(html) == html.raw > 0 /\ ~LooksLikeCFBlock(html)

\* browser.go:376-382, the last resort
LastResort(html) ==
    IF UsableHTML(html) THEN BrowserOK(html)
    ELSE BrowserError(NewError("all URLs failed or were blocked"))

\* browser.go:344, how many alternates GenerateAlternateURLs returns, or -1
\* for its error
Generated == {-1} \cup (0 .. MaxAlternates)

\* browser.go:320-354 and 376-382: what scrapeWithOptions does with the
\* primary URL's capture.
PrimaryReturn ==
    /\ bpc = "extracted"
    /\ urlIndex = 0
    /\ primaryHTML' = neHTML
    /\ primaryChallenge' = challenge
    /\ IF UsableHTML(neHTML)
       THEN /\ bret' = BrowserOK(neHTML)
            /\ bpc' = "done"
            /\ UNCHANGED << urlIndex, alternates >>
       ELSE \E generated \in Generated :
              /\ alternates' = generated
              /\ IF generated = -1
                 THEN /\ bret' = IF UsableHTML(neHTML) THEN BrowserOK(neHTML)
                                 ELSE BrowserError(Wrap("failed to generate alternate URLs",
                                                        NewError("parse error")))
                      /\ bpc' = "done"
                      /\ urlIndex' = urlIndex
                 ELSE IF generated = 0
                 THEN /\ bret' = LastResort(neHTML)
                      /\ bpc' = "done"
                      /\ urlIndex' = urlIndex
                 ELSE /\ bret' = bret
                      /\ bpc' = "extract"
                      /\ urlIndex' = 1
    /\ rnSnapshots' = << >>
    /\ rnErr' = Nil
    /\ neHTML' = NoDoc
    /\ neErr' = Nil
    /\ UNCHANGED << bleft, page, challenge, captureLocals, retryLocals >>
    /\ UNCHANGED << orchVars, engineVars >>

\* browser.go:355-382: what scrapeWithOptions does with an alternate URL's
\* capture.
AlternateReturn ==
    /\ bpc = "extracted"
    /\ urlIndex >= 1
    /\ IF (neErr = Nil /\ neHTML.raw > 0 /\ UsableHTML(neHTML))
          \/ (neErr # Nil /\ UsableHTML(neHTML))
       THEN /\ bret' = BrowserOK(neHTML)
            /\ bpc' = "done"
            /\ urlIndex' = urlIndex
       ELSE IF urlIndex < alternates
       THEN /\ bret' = bret
            /\ bpc' = "extract"
            /\ urlIndex' = urlIndex + 1
       ELSE /\ bret' = LastResort(primaryHTML)
            /\ bpc' = "done"
            /\ urlIndex' = urlIndex
    /\ rnSnapshots' = << >>
    /\ rnErr' = Nil
    /\ neHTML' = NoDoc
    /\ neErr' = Nil
    /\ UNCHANGED << bleft, page, challenge, captureLocals, retryLocals,
                    alternates, primaryHTML, primaryChallenge >>
    /\ UNCHANGED << orchVars, engineVars >>

\* ================================================================= SpecBrowser

\* The call ScrapeWithBrowserOptimized(ctx, targetURL, timeoutMs): the
\* orchestrator stands at its call of the browser tier.
OrchAtBrowserCall ==
    /\ impl = "scraper"
    /\ pc = "browsing"
    /\ targetURL = CHOOSE u \in URLs : ~URLParseFails(u)
    /\ hasDeadline = TRUE
    /\ left = 0
    /\ remainingAtStart = 0
    /\ remainingTime = 0
    /\ remainingAfterHTTP = 0
    /\ isTimeLimited = FALSE
    /\ httpTimeout = 0
    /\ browserTimeout = 0
    /\ fetchCalls = 1
    /\ browserCalls = 1
    /\ httpHTML = NoHTML
    /\ httpErr = Nil
    /\ err = Nil
    /\ ret = NotReturned

\* timeoutMs: what ScrapeSmart passes is between 1s and BrowserTimeout; the
\* exported functions take any.
BrowserTimeouts ==
    { 4 * Second, 12 * Second, 35 * Second, BrowserTimeout,
      MaxBrowserTimeoutSec * Second }

BrowserInit ==
    /\ OrchAtBrowserCall
    /\ bpc = "setup"
    /\ bleft \in BrowserTimeouts
    /\ BrowserLocalsInit
    /\ EngineIdle

BrowserNext ==
    \/ BrowserSetup
    \/ NavigateAndExtractStart
    \/ AttemptStart
    \/ CapturePeriodic
    \/ CaptureInitial
    \/ ChallengeCheck
    \/ ReadyWaits
    \/ HandleConsent
    \/ CaptureAfterConsent
    \/ Scroll
    \/ CaptureAfterScroll
    \/ WaitForContentStability
    \/ FallbackChain
    \/ CaptureReturn
    \/ NavigateAndExtractReturn
    \/ PrimaryReturn
    \/ AlternateReturn

SpecBrowser == BrowserInit /\ [][BrowserNext]_vars

\* ============================================== claims on ScrapeSmart

MinimalHTMLError == NewError("HTTP fetch returned empty or minimal HTML")
InsufficientBudgetError ==
    NewError("scraping failed: insufficient time budget for browser phase")
InsufficientTimeError == NewError("scraping failed: insufficient time remaining")
ExpiredDuringHTTP ==
    Wrap("scraping failed: parent context expired during HTTP phase",
         ContextDeadlineExceeded)
ExpiredDuringBrowser ==
    Wrap("scraping failed: parent context expired during browser phase",
         ContextDeadlineExceeded)

\* The static-fetch tier was called, has returned, and phase 1 failed.
TierOneFailed == fetchCalls = 1 /\ pc # "fetching" /\ httpErr # Nil

\* The static-fetch tier returned no error and empty or minimal HTML.
TierOneMinimal ==
    /\ fetchCalls = 1
    /\ pc # "fetching"
    /\ EmptyOrMinimalHTML(httpHTML)
    /\ httpErr \in {Nil, MinimalHTMLError}

\* The browser tier was called, has returned, and phase 2 failed.
TierTwoFailed == browserCalls = 1 /\ pc = "done" /\ err # Nil

\* C1: for every target URL that url.Parse rejects, ScrapeSmart returns the
\* invalid-URL error and neither the static-fetch tier nor the browser tier
\* is ever called in that request.
C1_MalformedRejected ==
    URLParseFails(targetURL) =>
        /\ fetchCalls = 0
        /\ browserCalls = 0
        /\ pc \in {"validate", "done"}
        /\ pc = "done" => (ret.type = "error" /\ Head(ret.err) = "invalid URL")

C1_Witness ==
    /\ pc = "done"
    /\ URLParseFails(targetURL)
    /\ ret.type = "error"

\* C2: whenever ScrapeSmart returns without an error, the result has a
\* non-empty title or a non-empty content.
C2_NoEmptySuccess ==
    ret.type = "ok" => ~ExtractionEmpty(ret.result)

C4_MinimalHTMLFallsThrough ==
    TierOneMinimal =>
        /\ ret.type = "ok" => browserCalls = 1
        /\ ret.type = "error" => "HTTP fetch returned empty or minimal HTML" \notin ErrorText(ret.err)
        /\ (pc = "done" /\ browserCalls = 0) =>
              (ret.type = "error"
               /\ ret.err \in {InsufficientBudgetError, InsufficientTimeError, ExpiredDuringHTTP})

LastTierFailed ==
    /\ pc = "done"
    /\ \/ browserCalls = 1 /\ err # Nil
       \/ browserCalls = 0 /\ fetchCalls = 1 /\ httpErr # Nil

RemainingAtTierTwo == IF impl = "scraper" THEN remainingTime ELSE remainingAfterHTTP

\* C9: the timeout handed to each tier that is called is non-negative and at
\* most the time remaining at the tier's start minus 1 second.
C9_TimeoutsWithinReserve ==
    /\ fetchCalls = 1 =>
          (0 <= httpTimeout /\ httpTimeout <= remainingAtStart - 1 * Second)
    /\ browserCalls = 1 =>
          (0 <= browserTimeout /\ browserTimeout <= RemainingAtTierTwo - 1 * Second)

Selectable(snap) ==
    /\ snap.Length > 0
    /\ ~(LooksLikeApplicationError(snap.HTML) /\ snap.Length < 1000)

NoHTMLCaptured == NewError("no HTML captured from any snapshot")
AllURLsFailed == NewError("all URLs failed or were blocked")
NoAlternates == Wrap("failed to generate alternate URLs", NewError("parse error"))

\* C5: the capture engine returns an error only when no snapshot at all was
\* produced. Whenever the snapshots retryNavigation handed to
\* navigateAndExtract hold one with non-empty HTML, appended by a primary
\* stage or by the fallback chain, navigateAndExtract returns the HTML of
\* one of these snapshots with no error. (Snapshots of whitespace only, and
\* the short application-error pages getBestHTML leaves out, do not count
\* here.)
C5_ErrorOnlyWithoutSnapshot ==
    (/\ bpc = "extracted"
     /\ \E i \in 1 .. Len(rnSnapshots) : Selectable(rnSnapshots[i]))
    => /\ neErr = Nil
       /\ \E i \in 1 .. Len(rnSnapshots) : neHTML = rnSnapshots[i].HTML

\* The primary URL's capture ended with the challenge still there, and what
\* navigateAndExtract returned for it matches the block pattern.
PrimaryStillBlocked ==
    /\ primaryChallenge = "unresolved"
    /\ LooksLikeCFBlock(primaryHTML)
    /\ primaryHTML.len > 0

\* C6 as stated: when the captured HTML matches a block pattern and the
\* challenge never resolved within the challenge wait, scrapeWithOptions
\* still returns that snapshot's HTML with no error, provided its trimmed
\* length is not zero. (Stated for the calls whose deadline has not passed
\* and whose alternate URLs could be generated.)
C6_Original ==
    (bpc = "done" /\ PrimaryStillBlocked /\ bleft > 0 /\ alternates >= 0)
    => bret = BrowserOK(primaryHTML)

\* C6, amended: with the challenge unresolved and every snapshot a block
\* page, navigateAndExtract returns the best snapshot's HTML with no error
\* when a primary stage captured one; scrapeWithOptions never returns that
\* HTML. It goes on to the alternate URLs and returns the HTML of one that
\* is not blocked, or fails with "all URLs failed or were blocked" (or with
\* the error of GenerateAlternateURLs).
C6_BlockedSnapshotRejected ==
    /\ (/\ bpc = "extracted"
        /\ challenge = "unresolved"
        /\ \A i \in 1 .. Len(rnSnapshots) : LooksLikeCFBlock(rnSnapshots[i].HTML)
        /\ \E i \in 1 .. Len(rnSnapshots) : stagePriority(rnSnapshots[i].Stage) >= 0)
       => /\ neErr = Nil
          /\ LooksLikeCFBlock(neHTML)
          /\ neHTML.len > 0
    /\ (bpc = "done" /\ PrimaryStillBlocked)
       => /\ bret.type = "ok" => (~LooksLikeCFBlock(bret.html) /\ urlIndex >= 1)
          /\ bret.type = "error" => bret.err \in {AllURLsFailed, NoAlternates}
          /\ bret.type # "none"

C6_Witness ==
    /\ bpc = "done"
    /\ PrimaryStillBlocked
    /\ alternates >= 1
    /\ bleft > 0
    /\ bret = BrowserError(AllURLsFailed)

\* ------------------------------------------------------------- bounds
\* img tags in the article of a FanIn document
MaxImgTags == 2

\* the longest maxWait of a stability loop, in seconds
MaxStabilityWaitSec == 3

\* ======================================================= the image engine
\* internal/scraper/images.go.  A score is kept in tenths of a point: the
\* code's scores are sums of 2.0, 1.5, 1.0 and a whole number.

\* ------------------------------------------------------------------ URLs
\* A URL is its host, its path and what follows the path: "" (nothing), "?"
\* (a bare question mark) or "?" with parameters.  A reference without a
\* host is relative.
BaseHost == "screenrant.com"

toAbsoluteURL(u) == IF u.host = "" THEN [u EXCEPT !.host = BaseHost] ELSE u

\* parsed.RawQuery = "" and parsed.String(): the parameters go; url.Parse
\* keeps a bare trailing "?" apart from the query (ForceQuery) and String()
\* writes it back.
cleanImageURL(u) == [u EXCEPT !.query = IF @ = "?" THEN "?" ELSE ""]

\* regexes["imageExt"]: the paths that name an image file.
ImagePaths ==
    { "/a.jpg", "/b.jpg", "/c.jpg", "/hero.jpg", "/body.jpg", "/portrait.jpg",
      "/small-landscape.jpg", "/sidebar.jpg", "/t1.jpg", "/t2.jpg", "/t3.jpg" }
imageExt(u) == u.path \in ImagePaths

\* regexes["widthFromUrl"] and ["heightFromUrl"]: the dimensions a URL's
\* parameters carry, 0 where they carry none.
parseDimensionsFromURL(u) ==
    CASE u.query = "?w=600&h=900" -> << 600, 900 >>
      [] u.query = "?w=550&h=300" -> << 550, 300 >>
      [] u.query = "?w=1200&h=600&crop=faces" -> << 1200, 600 >>
      [] u.query = "?q=70&fit=crop&w=1600&h=900" -> << 1600, 900 >>
      [] OTHER -> << 0, 0 >>

\* -------------------------------------------------------------- the DOM
\* A document is its meta tags in document order, what ExtractJSONLDImage
\* and ExtractJSONLD read from its JSON-LD blocks, and its elements in
\* document order, each with the index of its parent (0 for the root).
\* removed holds the elements Remove() has taken out.  class is the set of
\* the class attribute's tokens; width, height are the attributes as
\* strconv.Atoi reads them and styleWidth the width of the style attribute,
\* 0 when absent or not a number; src is the first of data-srcset, src,
\* data-src, data-original, data-lazy-src, srcset the tag carries; badHint
\* is whether regexes["badHint"] matches the tag or its URL.
Elem(tag, parent, class, id) ==
    [tag |-> tag, parent |-> parent, class |-> class, id |-> id,
     itemprop |-> "", src |-> NoURL, alt |-> "", width |-> 0, height |-> 0,
     styleWidth |-> 0, badHint |-> FALSE]

ImgTag(parent, src, alt, width, height) ==
    [Elem("img", parent, {}, "") EXCEPT
        !.src = src, !.alt = alt, !.width = width, !.height = height]

\* strings.Contains(token, pattern) for the class and id tokens of the
\* documents below and the patterns of preprocessHTML and isExcludedSection.
Contains(token, pattern) ==
    \/ token = pattern
    \/ << token, pattern >> \in
          { << "related-posts", "related" >>, << "article-header", "header" >>,
            << "related-layout", "related" >>, << "widget-area", "widget" >> }

RECURSIVE Parents(_, _)
Parents(d, n) ==
    LET p == d.nodes[n].parent
    IN  IF p = 0 THEN << >> ELSE << p >> \o Parents(d, p)

Ancestors(d, n) == { Parents(d, n)[i] : i \in DOMAIN Parents(d, n) }
Live(d) == DOMAIN d.nodes \ d.removed
Descendants(d, n) == { m \in Live(d) : n \in Ancestors(d, m) }
\* s.Find(tag)
Find(d, n, tag) == { m \in Descendants(d, n) : d.nodes[m].tag = tag }
\* s.Remove(), of every element of S
Remove(d, S) ==
    [d EXCEPT !.removed =
        @ \cup S \cup { m \in DOMAIN d.nodes : Ancestors(d, m) \cap S # {} }]

HasClass(d, n, token) == token \in d.nodes[n].class
ClassHas(d, n, pattern) == \E t \in d.nodes[n].class : Contains(t, pattern)
IdHas(d, n, pattern) == Contains(d.nodes[n].id, pattern)

\* The elements of S in document order.
RECURSIVE InDocumentOrder(_)
InDocumentOrder(S) ==
    IF S = {} THEN << >>
    ELSE LET n == CHOOSE x \in S : \A y \in S : x <= y
         IN  << n >> \o InDocumentOrder(S \ {n})

\* isExcludedSection's exclusionPatterns
ExclusionPatterns ==
    { "sidebar", "side-bar", "side_bar",
      "related", "related-posts", "related-articles", "related-content",
      "related-stories",
      "featured", "featured-posts", "featured-articles", "featured-content",
      "featured-stories",
      "popular", "trending", "most-read", "most-popular",
      "recommended", "recommendation", "you-may-like",
      "widget", "banner", "advertisement", "ad-", "advert",
      "navigation", "nav-", "navbar", "menu", "footer", "header", "carousel",
      "slider", "gallery", "aside", "promo", "promotion", "sponsored",
      "more-stories", "more-articles", "more-news",
      "latest-posts", "latest-articles", "latest-news", "latest-stories",
      "recent-posts", "recent-articles", "recent-news",
      "top-stories", "top-posts", "highlights", "must-read", "dont-miss",
      "editor-pick", "editor-choice", "read-more", "read-next",
      "story-list", "post-list", "grid-items", "list-items" }

\* The documents below carry none of the data-* attributes.
isExcludedSection(d, s) ==
    \E pattern \in ExclusionPatterns :
        ClassHas(d, s, pattern) \/ IdHas(d, s, pattern)

\* An isInLinkList that does not look for a large image.
isInLinkList_IgnoresLarge(d, s) ==
    LET parents == Parents(d, s)
    IN  \E i \in DOMAIN parents :
          /\ i <= 5
          /\ LET parent == parents[i]
                 linkCount == Cardinality(Find(d, parent, "a"))
                 imgs == Find(d, parent, "img")
                 smallImageCount ==
                     Cardinality({ img \in imgs :
                                     /\ d.nodes[img].width <= 400
                                     /\ d.nodes[img].width > 0 })
             IN  /\ linkCount >= 3
                 /\ Cardinality(imgs) >= 2
                 /\ \/ d.nodes[parent].tag \in { "ul", "ol", "nav" }
                    \/ smallImageCount >= 2 /\ linkCount >= 6

isInLinkList(d, s) ==
    LET parents == Parents(d, s)
    IN  \E i \in DOMAIN parents :
          /\ i <= 5
          /\ LET parent == parents[i]
                 linkCount == Cardinality(Find(d, parent, "a"))
                 imgs == Find(d, parent, "img")
                 imgCount == Cardinality(imgs)
                 tagName == d.nodes[parent].tag
                 hasLargeImage ==
                     \E img \in imgs :
                         \/ d.nodes[img].width > 400
                         \/ d.nodes[img].styleWidth > 400
                 smallImageCount ==
                     Cardinality({ img \in imgs :
                                     /\ d.nodes[img].width <= 400
                                     /\ d.nodes[img].width > 0 })
             IN  /\ linkCount >= 3
                 /\ imgCount >= 2
                 /\ \/ tagName \in { "ul", "ol", "nav" }
                    \/ /\ ~hasLargeImage
                       /\ smallImageCount >= 2
                       /\ linkCount >= 6

\* No element is in an excluded section.
isInExcludedSection_Never(d, s) == FALSE

isInExcludedSection(d, s) ==
    \/ \E parent \in Ancestors(d, s) : isExcludedSection(d, parent)
    \/ isInLinkList(d, s)

\* parent.Is(selector) of isInArticleScope
IsArticleScope(d, n) ==
    \/ d.nodes[n].tag \in { "article", "main" }
    \/ d.nodes[n].itemprop = "articleBody"
    \/ d.nodes[n].tag = "section" /\ HasClass(d, n, "article-body")
    \/ d.nodes[n].id = "article-body"

RECURSIVE ScopeFrom(_, _, _)
ScopeFrom(d, parents, i) ==
    IF i > Len(parents) THEN FALSE
    ELSE IF isInExcludedSection(d, parents[i]) THEN FALSE
    ELSE IF IsArticleScope(d, parents[i]) THEN TRUE
    ELSE ScopeFrom(d, parents, i + 1)

isInArticleScope(d, s) == ScopeFrom(d, Parents(d, s), 1)

\* preprocessHTML's selectors
Unwanted(d, n) ==
    \/ d.nodes[n].tag \in { "aside", "nav", "footer" }
    \/ \E token \in { "sidebar", "right-rail", "side-bar", "related-posts",
                      "related-articles", "recommended-posts", "popular-posts",
                      "lg:col-span-1" } : HasClass(d, n, token)
    \/ \E pattern \in { "sidebar", "related", "popular" } :
          ClassHas(d, n, pattern) \/ IdHas(d, n, pattern)

\* the Each over [class*='widget'], [id*='widget'], in document order
RECURSIVE RemoveWidgets(_, _)
RemoveWidgets(d, selection) ==
    IF selection = << >> THEN d
    ELSE LET s == Head(selection)
         IN  RemoveWidgets(
                 IF \/ d.nodes[s].tag \in { "article", "main" }
                    \/ isInArticleScope(d, s)
                 THEN d
                 ELSE Remove(d, { s }),
                 Tail(selection))

\* A preprocessHTML that removes every widget-marked element.
preprocessHTML_AllWidgets(d) ==
    LET d1 == Remove(d, { n \in Live(d) : Unwanted(d, n) })
    IN  Remove(d1, { s \in Live(d1) :
                       ClassHas(d1, s, "widget") \/ IdHas(d1, s, "widget") })

preprocessHTML(d) ==
    LET d1 == Remove(d, { n \in Live(d) : Unwanted(d, n) })
        d2 == Remove(d1, { s \in Live(d1) :
                             /\ d1.nodes[s].tag = "header"
                             /\ \A p \in Ancestors(d1, s) :
                                   d1.nodes[p].tag \notin { "article", "main" } })
    IN  RemoveWidgets(d2, InDocumentOrder(
            { s \in Live(d2) : ClassHas(d2, s, "widget") \/ IdHas(d2, s, "widget") }))

\* ------------------------------------------------------- the candidates
ImageCandidate(url, alt, width, height, inArticle, badHint, source) ==
    [URL |-> url, Alt |-> alt, Width |-> width, Height |-> height,
     InArticle |-> inArticle, BadHint |-> badHint, Source |-> source,
     Score |-> 0, Area |-> 0]

\* The content of the last meta tag with one of the properties.
LastMeta(d, properties, default) ==
    LET hits == { i \in DOMAIN d.meta : d.meta[i].property \in properties }
    IN  IF hits = {} THEN default
        ELSE d.meta[CHOOSE i \in hits : \A j \in hits : j <= i].content

\* nil is the empty list, the candidate a list of one.
extractOgImage(d) ==
    LET ogImageURL == LastMeta(d, { "og:image", "og:image:secure_url" }, NoURL)
        ogImageAlt == LastMeta(d, { "og:image:alt" }, "")
        width == LastMeta(d, { "og:image:width" }, 0)
        height == LastMeta(d, { "og:image:height" }, 0)
        absURL == cleanImageURL(toAbsoluteURL(ogImageURL))
        fromURL == parseDimensionsFromURL(absURL)
    IN  IF ogImageURL = NoURL THEN << >>
        ELSE IF ~imageExt(absURL) THEN << >>
        ELSE << ImageCandidate(absURL, ogImageAlt,
                    IF width = 0 THEN fromURL[1] ELSE width,
                    IF height = 0 THEN fromURL[2] ELSE height,
                    TRUE, FALSE, "og") >>

extractJSONLDImage(d) ==
    LET absURL == cleanImageURL(toAbsoluteURL(d.jsonldImage))
    IN  IF d.jsonldImage = NoURL THEN << >>
        ELSE IF ~imageExt(absURL) THEN << >>
        ELSE << ImageCandidate(cleanImageURL(absURL), d.headline, 0, 0,
                               TRUE, FALSE, "jsonld") >>

extractDimensions(d, s) ==
    << IF d.nodes[s].styleWidth > 0 THEN d.nodes[s].styleWidth
       ELSE d.nodes[s].width,
       d.nodes[s].height >>

extractImgTag(d, s) ==
    LET src == d.nodes[s].src
        originalURL == toAbsoluteURL(src)
        absURL == cleanImageURL(cleanImageURL(originalURL))
        dims == extractDimensions(d, s)
        fromURL == parseDimensionsFromURL(originalURL)
    IN  IF src = NoURL THEN << >>
        ELSE IF ~imageExt(originalURL) THEN << >>
        ELSE << ImageCandidate(absURL, d.nodes[s].alt,
                    IF dims[1] = 0 THEN fromURL[1] ELSE dims[1],
                    IF dims[2] = 0 THEN fromURL[2] ELSE dims[2],
                    isInArticleScope(d, s), d.nodes[s].badHint, "img") >>

\* extractArticleImgTags' articleSelectors
IsArticleContainer(d, n) ==
    \/ d.nodes[n].tag = "article"
       /\ \E p \in Ancestors(d, n) : d.nodes[p].tag = "main"
    \/ /\ HasClass(d, n, "article-body") \/ d.nodes[n].id = "article-body"
       /\ \E p \in Ancestors(d, n) : d.nodes[p].tag = "article"
    \/ d.nodes[n].itemprop = "articleBody"

\* container.Find("img").Each
RECURSIVE ImgTagsOf(_, _)
ImgTagsOf(d, imgs) ==
    IF imgs = << >> THEN << >>
    ELSE LET candidate == extractImgTag(d, Head(imgs))
         IN  (IF candidate = << >> THEN << >>
              ELSE << [candidate[1] EXCEPT !.InArticle = TRUE] >>)
             \o ImgTagsOf(d, Tail(imgs))

\* doc.Find(selector).Each
RECURSIVE ContainersFrom(_, _)
ContainersFrom(d, containers) ==
    IF containers = << >> THEN << >>
    ELSE LET container == Head(containers)
         IN  (IF isInExcludedSection(d, container) THEN << >>
              ELSE ImgTagsOf(d, InDocumentOrder(Find(d, container, "img"))))
             \o ContainersFrom(d, Tail(containers))

extractArticleImgTags(d) ==
    ContainersFrom(d, InDocumentOrder({ n \in Live(d) : IsArticleContainer(d, n) }))

\* --------------------------------------------- filter, score, sort, top
\* ie.config.AdSizes[fmt.Sprintf("%dx%d", width, height)]
isAdSize(cfg, width, height) ==
    IF width = 0 \/ height = 0 THEN FALSE
    ELSE << width, height >> \in cfg.AdSizes

min(a, b) == IF a < b THEN a ELSE b

\* A filter that does not compare width and height.
passesBasicFilters_AnyOrientation(cfg, c) ==
    IF c.Width > 0 /\ c.Height > 0
    THEN LET shortSide == min(c.Width, c.Height)
         IN  /\ ~(c.Width < 600)
             /\ ~(shortSide < 100)
             /\ ~isAdSize(cfg, c.Width, c.Height)
             /\ ~(c.BadHint /\ shortSide < 200)
    ELSE ~c.BadHint

\* A filter that rejects every bad hint, whatever the size.
passesBasicFilters_HintAlways(cfg, c) ==
    /\ ~c.BadHint
    /\ (c.Width > 0 /\ c.Height > 0) =>
          /\ ~(c.Width <= c.Height)
          /\ ~(c.Width < 600)
          /\ ~(min(c.Width, c.Height) < 100)
          /\ ~isAdSize(cfg, c.Width, c.Height)

passesBasicFilters(cfg, c) ==
    IF c.Width > 0 /\ c.Height > 0
    THEN LET shortSide == min(c.Width, c.Height)
         IN  /\ ~(c.Width <= c.Height)
             /\ ~(c.Width < 600)
             /\ ~(shortSide < 100)
             /\ ~isAdSize(cfg, c.Width, c.Height)
             /\ ~(c.BadHint /\ shortSide < 200)
    ELSE ~c.BadHint

\* log10 counts the divisions by ten that leave x at 10 or more.
RECURSIVE log10(_)
log10(x) == IF x >= 10 THEN 1 + log10(x \div 10) ELSE 0

\* abs(aspect - ratio) <= RatioTol for a ratio a/b of the whitelist, with
\* aspect = Width/Height and RatioTol in hundredths.
MatchesRatio(cfg, c) ==
    \E ratio \in cfg.RatioWhitelist :
        LET diff == c.Width * ratio[2] - ratio[1] * c.Height
        IN  (IF diff < 0 THEN -diff ELSE diff) * 100
                <= cfg.RatioTol * c.Height * ratio[2]

\* in tenths of a point
calculateScore(cfg, c) ==
    LET area == c.Width * c.Height
    IN  (IF c.InArticle THEN 20 ELSE 0)
        + (IF c.Source = "og" \/ c.Source = "jsonld" THEN 15 ELSE 0)
        + (IF c.Width > 0 /\ c.Height > 0 /\ MatchesRatio(cfg, c) THEN 10 ELSE 0)
        + (IF area > 0 THEN 10 * log10(area) ELSE 0)

RECURSIVE filterArticleImages(_, _)
filterArticleImages(cfg, candidates) ==
    IF candidates = << >> THEN << >>
    ELSE LET c == Head(candidates)
         IN  (IF ~c.InArticle THEN << >>
              ELSE IF ~passesBasicFilters(cfg, c) THEN << >>
              ELSE << [c EXCEPT !.Score = calculateScore(cfg, c),
                                !.Area = c.Width * c.Height] >>)
             \o filterArticleImages(cfg, Tail(candidates))

\* the swap condition of sortCandidates
Before(a, b) ==
    \/ a.Score < b.Score
    \/ a.Score = b.Score /\ a.Area < b.Area

\* the inner loop of the bubble sort, j from 1 while j <= last
RECURSIVE BubblePass(_, _, _)
BubblePass(candidates, j, last) ==
    IF j > last THEN candidates
    ELSE BubblePass(
             IF Before(candidates[j], candidates[j + 1])
             THEN [candidates EXCEPT ![j] = candidates[j + 1],
                                     ![j + 1] = candidates[j]]
             ELSE candidates,
             j + 1, last)

\* the outer loop, i from 0 while i < n-1
RECURSIVE BubbleFrom(_, _)
BubbleFrom(candidates, i) ==
    IF i >= Len(candidates) - 1 THEN candidates
    ELSE BubbleFrom(BubblePass(candidates, 1, Len(candidates) - i - 1), i + 1)

sortCandidates(candidates) == BubbleFrom(candidates, 0)

\* A first loop that never finds the URL in urlToImage.
RECURSIVE UniqueImages_NoDedup(_, _)
UniqueImages_NoDedup(candidates, acc) ==
    IF candidates = << >> THEN acc
    ELSE UniqueImages_NoDedup(Tail(candidates),
             Append(acc, [URL |-> Head(candidates).URL, Alt |-> Head(candidates).Alt]))

\* getTopImages' first loop: urlToImage and orderedURLs, as one list
RECURSIVE UniqueImages(_, _)
UniqueImages(candidates, acc) ==
    IF candidates = << >> THEN acc
    ELSE LET c == Head(candidates)
             hits == { k \in DOMAIN acc : acc[k].URL = c.URL }
         IN  UniqueImages(Tail(candidates),
                 IF hits = {} THEN Append(acc, [URL |-> c.URL, Alt |-> c.Alt])
                 ELSE LET k == CHOOSE k \in hits : TRUE
                      IN  IF acc[k].Alt = "" /\ c.Alt # ""
                          THEN [acc EXCEPT ![k].Alt = c.Alt]
                          ELSE acc)

getTopImages(candidates, limit) ==
    LET unique == UniqueImages(candidates, << >>)
    IN  SubSeq(unique, 1, min(limit, Len(unique)))

\* ExtractImagesFromHTML's limit
TopImagesLimit == 10

\* -------------------------------------------------------- the documents
U(host, path, query) == [host |-> host, path |-> path, query |-> query]
Meta(property, content) == [property |-> property, content |-> content]
Document(meta, jsonldImage, headline, nodes) ==
    [meta |-> meta, jsonldImage |-> jsonldImage, headline |-> headline,
     nodes |-> nodes, removed |-> {}]

\* The page of TestExtractImagesFromHTMLKeepsArticleWidgets
\* (images_test.go:6-34), with the article element's class list a parameter.
ArticleClasses ==
    { { "w-article", "widget", "article", "layout-rich" },
      { "w-article", "featured", "article" },
      { "w-article", "gallery" },
      { "w-article", "related-layout" },
      { "w-article", "sidebar" },
      { "w-article" } }

KeepsArticleWidgets(articleClass) ==
    Document(<< >>, NoURL, "",
      << Elem("html", 0, {}, ""),
         Elem("body", 1, {}, ""),
         Elem("div", 2, { "sidebar", "widget" }, ""),
         ImgTag(3, U("cdn.example.com", "/sidebar.jpg", ""), "Sidebar", 600, 400),
         Elem("section", 2, { "sidebar", "related-posts" }, ""),
         ImgTag(5, U("static0.srcdn.com", "/sidebar.jpg", "?s400-rw-e365"),
                "SidebarLarge", 800, 600),
         Elem("main", 2, {}, ""),
         Elem("article", 7, articleClass, ""),
         Elem("header", 8, { "article-header" }, ""),
         Elem("div", 9, { "heading_image" }, ""),
         ImgTag(10, U("static0.srcdn.com", "/hero.jpg", "?q=70&fit=crop&w=1600&h=900"),
                "Hero", 1600, 900),
         Elem("section", 8, { "article-body" }, "article-body"),
         Elem("div", 12, { "body-img" }, ""),
         ImgTag(13, U("static0.srcdn.com", "/body.jpg", "?w=1200&h=600&crop=faces"),
                "Body", 1000, 700),
         Elem("div", 12, { "body-img" }, ""),
         ImgTag(15, U("static0.srcdn.com", "/portrait.jpg", "?w=600&h=900"),
                "Portrait", 600, 900),
         Elem("div", 12, { "body-img" }, ""),
         ImgTag(17, U("static0.srcdn.com", "/small-landscape.jpg", "?w=550&h=300"),
                "Small", 550, 300) >>)

\* A page with og:image a.jpg, an article with one 800x600 img b.jpg and an
\* aside of class related-posts with three linked thumbnails of width 150.
\* The article is a child of wrapper, a main or a div element.
EndToEnd(wrapper) ==
    Document(<< Meta("og:image", U("x", "/a.jpg", "")) >>, NoURL, "",
      << Elem("html", 0, {}, ""),
         Elem("body", 1, {}, ""),
         Elem(wrapper, 2, {}, ""),
         Elem("article", 3, {}, ""),
         ImgTag(4, U("x", "/b.jpg", ""), "", 800, 600),
         Elem("aside", 2, { "related-posts" }, ""),
         Elem("a", 6, {}, ""),
         ImgTag(7, U("x", "/t1.jpg", ""), "", 150, 0),
         Elem("a", 6, {}, ""),
         ImgTag(9, U("x", "/t2.jpg", ""), "", 150, 0),
         Elem("a", 6, {}, ""),
         ImgTag(11, U("x", "/t3.jpg", ""), "", 150, 0) >>)

\* A container (element 5) of 6 links and 3 images in the article: two
\* images of the width first, given as attribute or in the style, and one of
\* the width third.
Widths ==
    { [width |-> 150, styleWidth |-> 0], [width |-> 400, styleWidth |-> 0],
      [width |-> 0, styleWidth |-> 150], [width |-> 0, styleWidth |-> 0],
      [width |-> 401, styleWidth |-> 0], [width |-> 800, styleWidth |-> 0],
      [width |-> 0, styleWidth |-> 800] }

Thumb(parent, path, w) ==
    [ImgTag(parent, U("x", path, ""), "", w.width, 0) EXCEPT
        !.styleWidth = w.styleWidth]

LinkGrid(tag, first, third) ==
    Document(<< >>, NoURL, "",
      << Elem("html", 0, {}, ""),
         Elem("body", 1, {}, ""),
         Elem("main", 2, {}, ""),
         Elem("article", 3, {}, ""),
         Elem(tag, 4, { "grid" }, ""),
         Elem("a", 5, {}, ""),
         Thumb(6, "/t1.jpg", first),
         Elem("a", 5, {}, ""),
         Thumb(8, "/t2.jpg", first),
         Elem("a", 5, {}, ""),
         Thumb(10, "/t3.jpg", third),
         Elem("a", 5, {}, ""),
         Elem("a", 5, {}, ""),
         Elem("a", 5, {}, "") >>)

\* Pages whose three passes each find something: meta tags, a JSON-LD
\* image and up to MaxImgTags img tags in main > article.
OgMetas ==
    { << >>,
      << Meta("og:image", U("x", "/a.jpg", "")) >>,
      << Meta("og:image", U("x", "/a.jpg", "?w=600&h=900")),
         Meta("og:image:alt", "Open Graph") >>,
      << Meta("og:image", U("", "/a.jpg", "")),
         Meta("og:image:width", 1200), Meta("og:image:height", 630) >>,
      << Meta("og:image", U("x", "/page", "")) >> }

JSONLDBlocks ==
    { [image |-> NoURL, headline |-> ""],
      [image |-> U("x", "/a.jpg", "?w=550&h=300"), headline |-> "Headline"],
      [image |-> U("x", "/c.jpg", "?"), headline |-> "Headline"] }

ImgTags ==
    { [ImgTag(4, U("x", "/b.jpg", ""), "B", 800, 600) EXCEPT !.badHint = TRUE],
      ImgTag(4, U("x", "/a.jpg", "?q=70&fit=crop&w=1600&h=900"), "A", 0, 0),
      ImgTag(4, U("x", "/c.jpg", ""), "", 0, 0),
      ImgTag(4, U("x", "/portrait.jpg", "?w=600&h=900"), "Portrait", 0, 0),
      ImgTag(4, U("x", "/b.jpg", "?w=600&h=900"), "Banner", 970, 250),
      [ImgTag(4, U("x", "/t1.jpg", ""), "Icon", 640, 150) EXCEPT !.badHint = TRUE] }

FanIn(meta, jsonld, imgs) ==
    Document(meta, jsonld.image, jsonld.headline,
      << Elem("html", 0, {}, ""),
         Elem("body", 1, {}, ""),
         Elem("main", 2, {}, ""),
         Elem("article", 3, {}, "") >> \o imgs)

\* An article in main with one img: main in a div of the class list outer,
\* the img in a div of the class list inner.
WrapperClasses == { {}, { "promo" }, { "carousel" }, { "sponsored" } }

Wrapped(outer, inner) ==
    Document(<< >>, NoURL, "",
      << Elem("html", 0, {}, ""),
         Elem("body", 1, {}, ""),
         Elem("div", 2, outer, ""),
         Elem("main", 3, {}, ""),
         Elem("article", 4, {}, ""),
         Elem("div", 5, inner, ""),
         ImgTag(6, U("x", "/body.jpg", ""), "Body", 1200, 800) >>)

\* Pages with a square Open Graph image and img tags that all carry a bad
\* hint: large, with a short side under 200, and without dimensions.
SquareOgMeta ==
    << Meta("og:image", U("x", "/hero.jpg", "")),
       Meta("og:image:width", 800), Meta("og:image:height", 800) >>

HintedImgTags ==
    { [ImgTag(4, U("x", "/b.jpg", ""), "B", 800, 600) EXCEPT !.badHint = TRUE],
      [ImgTag(4, U("x", "/t1.jpg", ""), "Icon", 640, 150) EXCEPT !.badHint = TRUE],
      [ImgTag(4, U("x", "/t2.jpg", ""), "Pixel", 0, 0) EXCEPT !.badHint = TRUE] }

HintedImgTagLists == UNION { [1..n -> HintedImgTags] : n \in 0..MaxImgTags }

ImgTagLists == UNION { [1..n -> ImgTags] : n \in 0..MaxImgTags }

Documents ==
    { KeepsArticleWidgets(c) : c \in ArticleClasses }
    \cup { EndToEnd(w) : w \in { "main", "div" } }
    \cup { LinkGrid(t, f, th) : t \in { "div", "ul" }, f \in Widths, th \in Widths }
    \cup { FanIn(m, j, i) : m \in OgMetas, j \in JSONLDBlocks, i \in ImgTagLists }
    \cup { Wrapped(o, i) : o \in WrapperClasses, i \in WrapperClasses }
    \cup { FanIn(SquareOgMeta, j, i) : j \in JSONLDBlocks, i \in HintedImgTagLists }

\* ie.config (config.ImageConfig): the ratios RatioWhitelist holds, as pairs,
\* RatioTol in hundredths and the sizes AdSizes holds.
Configs ==
    { EmptyConfig,
      [RatioWhitelist |-> { << 16, 9 >>, << 4, 3 >>, << 3, 2 >> }, RatioTol |-> 5,
       AdSizes |-> { << 728, 90 >>, << 970, 250 >>, << 300, 250 >> }] }

\* ------------------------------------------------ ExtractImagesFromHTML
\* The orchestrator and the browser tier, at rest while the engine runs.
TiersAtRest == OrchAtBrowserCall /\ BrowserIdle

ImagesInit ==
    /\ TiersAtRest
    /\ StabilityIdle
    /\ SelectorIdle
    /\ HandlerIdle
    /\ ipc = "parsed"
    /\ document \in Documents
    /\ config \in Configs
    /\ pending = {}
    /\ candidatesChan = << >>
    /\ allCandidates = << >>
    /\ filtered = << >>
    /\ images = << >>

notImageVars == << orchVars, browserVars, stabVars, selVars, handlerVars >>

\* ie.preprocessHTML(doc), and the three goroutines start
Preprocess ==
    /\ ipc = "parsed"
    /\ document' = preprocessHTML(document)
    /\ pending' = { "og", "jsonld", "img" }
    /\ ipc' = "extracting"
    /\ UNCHANGED << config, candidatesChan, allCandidates, filtered, images >>
    /\ UNCHANGED notImageVars

\* A goroutine sends what its pass found; the channel holds all three.
OgPass ==
    /\ ipc = "extracting"
    /\ "og" \in pending
    /\ pending' = pending \ { "og" }
    /\ candidatesChan' = Append(candidatesChan, extractOgImage(document))
    /\ UNCHANGED << ipc, document, config, allCandidates, filtered, images >>
    /\ UNCHANGED notImageVars

JSONLDPass ==
    /\ ipc = "extracting"
    /\ "jsonld" \in pending
    /\ pending' = pending \ { "jsonld" }
    /\ candidatesChan' = Append(candidatesChan, extractJSONLDImage(document))
    /\ UNCHANGED << ipc, document, config, allCandidates, filtered, images >>
    /\ UNCHANGED notImageVars

ImgPass ==
    /\ ipc = "extracting"
    /\ "img" \in pending
    /\ pending' = pending \ { "img" }
    /\ candidatesChan' = Append(candidatesChan, extractArticleImgTags(document))
    /\ UNCHANGED << ipc, document, config, allCandidates, filtered, images >>
    /\ UNCHANGED notImageVars

\* for candidates := range candidatesChan
Receive ==
    /\ ipc = "extracting"
    /\ candidatesChan # << >>
    /\ allCandidates' = allCandidates \o Head(candidatesChan)
    /\ candidatesChan' = Tail(candidatesChan)
    /\ UNCHANGED << ipc, document, config, pending, filtered, images >>
    /\ UNCHANGED notImageVars

\* The channel is closed and drained: filter, sort, return the top images.
FilterSortTop ==
    /\ ipc = "extracting"
    /\ pending = {}
    /\ candidatesChan = << >>
    /\ filtered' = sortCandidates(filterArticleImages(config, allCandidates))
    /\ images' = getTopImages(filtered', TopImagesLimit)
    /\ ipc' = "done"
    /\ UNCHANGED << document, config, pending, candidatesChan, allCandidates >>
    /\ UNCHANGED notImageVars

ImagesNext ==
    \/ Preprocess
    \/ OgPass
    \/ JSONLDPass
    \/ ImgPass
    \/ Receive
    \/ FilterSortTop

SpecImages == ImagesInit /\ [][ImagesNext]_vars

\* ============================================ claims on the image engine

\* The orders in which the three passes can reach the channel.
ArrivalOrders ==
    { order \in [1..3 -> { "og", "jsonld", "img" }] :
        \A i, j \in 1..3 : i # j => order[i] # order[j] }

PassOutput(d, pass) ==
    CASE pass = "og" -> extractOgImage(d)
      [] pass = "jsonld" -> extractJSONLDImage(d)
      [] pass = "img" -> extractArticleImgTags(d)

\* What ExtractImagesFromHTML returns when the passes arrive in the order.
ImagesFor(d, cfg, order) ==
    getTopImages(
        sortCandidates(filterArticleImages(cfg,
            PassOutput(d, order[1]) \o PassOutput(d, order[2])
                \o PassOutput(d, order[3]))),
        TopImagesLimit)

\* C11: ExtractImagesFromHTML is deterministic: whatever the order in which
\* the three passes reach the channel, the call returns the list of images,
\* URLs and alt texts, that every other arrival order gives for the same
\* document and configuration.
C11_Deterministic ==
    ipc = "done" =>
        \A order \in ArrivalOrders : ImagesFor(document, config, order) = images

IsLinkGrid(d) ==
    /\ Len(d.nodes) = 14
    /\ d.nodes[5].tag = "div"
    /\ d.nodes[5].class = { "grid" }
    /\ Cardinality(Find(d, 5, "a")) = 6
    /\ Cardinality(Find(d, 5, "img")) = 3

GridImages(d) == Find(d, 5, "img")

\* The width of an img in pixels, as extractDimensions reads it.
PixelWidth(d, img) == extractDimensions(d, img)[1]

Returned(d, img) ==
    \E k \in DOMAIN images : images[k].URL = cleanImageURL(toAbsoluteURL(d.nodes[img].src))

IsEndToEnd(d) ==
    /\ Len(d.nodes) = 12
    /\ d.nodes[4].tag = "article"
    /\ d.nodes[6].tag = "aside"
    /\ d.meta # << >>

URLsOf(list) == [k \in DOMAIN list |-> list[k].URL]

\* C14: for the page with og:image a.jpg, an article with one 800x600 img
\* b.jpg and an aside of class related-posts with three linked 150px
\* thumbnails, the engine returns exactly [a.jpg, b.jpg], in that order, and
\* no thumbnail.
C14_EndToEnd ==
    (ipc = "done" /\ IsEndToEnd(document)) =>
        URLsOf(images) = << U("x", "/a.jpg", ""), U("x", "/b.jpg", "") >>

\* The document is the page of TestExtractImagesFromHTMLKeepsArticleWidgets:
\* element 8 is the article in main, elements 3 and 5 the sidebar sections.
IsKeepsArticleWidgets(d) ==
    /\ Len(d.nodes) = 18
    /\ d.nodes[7].tag = "main"
    /\ d.nodes[8].tag = "article"

ImgsIn(d, n) == { img \in DOMAIN d.nodes : d.nodes[img].tag = "img" /\ n \in Ancestors(d, img) }

\* The img passes the engine's size filter.
Qualifying(d, img) ==
    /\ extractImgTag(d, img) # << >>
    /\ passesBasicFilters(config, extractImgTag(d, img)[1])

HasExclusionKeyword(d, n) == \E pattern \in ExclusionPatterns : ClassHas(d, n, pattern)

\* C18 as stated: every qualifying image inside the main > article container
\* is returned even when the article's class list contains an exclusion
\* keyword, and no image of the sections outside the article is returned.
C18_Original ==
    (ipc = "done" /\ IsKeepsArticleWidgets(document)
        /\ HasExclusionKeyword(document, 8)) =>
        /\ \A img \in ImgsIn(document, 8) :
              Qualifying(document, img) => Returned(document, img)
        /\ \A img \in ImgsIn(document, 3) \cup ImgsIn(document, 5) :
              ~Returned(document, img)

\* C18, amended: every qualifying image inside the main > article container
\* is returned, also when the article's class list contains an exclusion
\* keyword, unless the keyword is one preprocessHTML removes elements for
\* (sidebar, related, popular and the other selectors of its list); no image
\* of the sidebar, widget or related-posts sections outside the article is
\* returned, and no image of the article that fails the size filter.
C18_KeepsArticleWidgets ==
    (ipc = "done" /\ IsKeepsArticleWidgets(document)) =>
        /\ ~Unwanted(document, 8)
            => \A img \in ImgsIn(document, 8) :
                  Qualifying(document, img) <=> Returned(document, img)
        /\ \A img \in ImgsIn(document, 3) \cup ImgsIn(document, 5) :
              ~Returned(document, img)

\* The run of the test: the article carries widget, and the hero and the
\* body image are what the engine returned.
C18_Witness ==
    /\ ipc = "done"
    /\ IsKeepsArticleWidgets(document)
    /\ "widget" \in document.nodes[8].class
    /\ URLsOf(images) = << U("static0.srcdn.com", "/hero.jpg", ""),
                           U("static0.srcdn.com", "/body.jpg", "") >>

\* The candidate has both dimensions and breaks one of the size rules.
ViolatesSizeRules(c) ==
    /\ c.Width > 0
    /\ c.Height > 0
    /\ \/ c.Width <= c.Height
       \/ c.Width < 600
       \/ min(c.Width, c.Height) < 100
       \/ << c.Width, c.Height >> \in config.AdSizes

\* The candidate that put images[i] into the output: the first of the
\* sorted candidates with its URL.
SourceOf(i) ==
    filtered[CHOOSE k \in DOMAIN filtered :
                /\ filtered[k].URL = images[i].URL
                /\ \A j \in 1..(k - 1) : filtered[j].URL # images[i].URL]

StableThreshold == 3
CheckInterval == 500

\* The trimmed lengths a read can give, and how long a read takes.
Lengths == { 1000, 1040, 1050, 2000 }
ReadTimes == { 0, 250 }

\* previousLength > 0 && percentChange < 5.0
Stable(previous, current) ==
    LET lengthDiff == current - previous
        absDiff == IF lengthDiff < 0 THEN -lengthDiff ELSE lengthDiff
    IN  previous > 0 /\ absDiff * 100 < 5 * previous

Snap(stage, length) == [Stage |-> stage, Length |-> length, nil |-> FALSE]
Staged(snap, stage) == IF snap = NoSnap THEN NoSnap ELSE [snap EXCEPT !.Stage = stage]

\* history: the last 4 lengths read
Remember(length) ==
    LET all == Append(recent, length)
    IN  IF Len(all) > 4 THEN Tail(all) ELSE all

\* ctx is the caller's and stabilityCtx its child with the timeout maxWait.
StabilityInit ==
    /\ TiersAtRest
    /\ ImagesIdle
    /\ SelectorIdle
    /\ HandlerIdle
    /\ spc = "select"
    /\ sleft \in { k * Second : k \in 1..MaxStabilityWaitSec }
    /\ cleft \in { sleft, sleft + Second }
    /\ previousLength = 0
    /\ stableCount = 0
    /\ lastSnap = NoSnap
    /\ sret = NoSnap
    /\ recent = << >>
    /\ streakSleeps = 0
    /\ streakFailed = FALSE

notStabVars == << orchVars, browserVars, imageVars, selVars, handlerVars >>

\* case <-stabilityCtx.Done()
StabilityTimeout ==
    /\ spc = "select"
    /\ sleft = 0
    /\ sret' = Staged(lastSnap, "stable-timeout")
    /\ lastSnap' = sret'
    /\ spc' = "returned"
    /\ UNCHANGED << sleft, cleft, previousLength, stableCount, recent,
                    streakSleeps, streakFailed >>
    /\ UNCHANGED notStabVars

\* case <-ctx.Done(); stabilityCtx is done as well then, and select takes
\* either case.
StabilityInterrupted ==
    /\ spc = "select"
    /\ cleft = 0
    /\ sret' = Staged(lastSnap, "stable-interrupted")
    /\ lastSnap' = sret'
    /\ spc' = "returned"
    /\ UNCHANGED << sleft, cleft, previousLength, stableCount, recent,
                    streakSleeps, streakFailed >>
    /\ UNCHANGED notStabVars

\* chromedp.Sleep(checkInterval).Do(ctx), after a read that took t
Sleep(t) ==
    /\ sleft' = Elapse(Elapse(sleft, t), CheckInterval)
    /\ cleft' = Elapse(Elapse(cleft, t), CheckInterval)

\* default, and the read fails (lastSnap stays) or gives an empty page
\* (lastSnap is that page): snap.Length == 0, sleep and continue
StabilityReadFailed ==
    /\ spc = "select"
    /\ sleft > 0
    /\ \E t \in ReadTimes : Sleep(t)
    /\ lastSnap' \in { lastSnap, Snap("stability-check", 0) }
    /\ streakSleeps' = streakSleeps + 1
    /\ streakFailed' = TRUE
    /\ UNCHANGED << spc, previousLength, stableCount, sret, recent >>
    /\ UNCHANGED notStabVars

\* A check that never resets stableCount.
StabilityCheck_NoReset ==
    /\ spc = "select"
    /\ sleft > 0
    /\ \E t \in ReadTimes, currentLength \in Lengths :
         /\ ~(Stable(previousLength, currentLength)
                /\ stableCount + 1 >= StableThreshold)
         /\ Sleep(t)
         /\ lastSnap' = Snap("stability-check", currentLength)
         /\ recent' = Remember(currentLength)
         /\ stableCount' = IF Stable(previousLength, currentLength)
                           THEN stableCount + 1 ELSE stableCount
         /\ IF Stable(previousLength, currentLength)
            THEN streakSleeps' = streakSleeps + 1 /\ UNCHANGED streakFailed
            ELSE streakSleeps' = 1 /\ streakFailed' = FALSE
         /\ previousLength' = currentLength
    /\ UNCHANGED << spc, sret >>
    /\ UNCHANGED notStabVars

\* default, the read gives a length and the loop goes on
StabilityCheck ==
    /\ spc = "select"
    /\ sleft > 0
    /\ \E t \in ReadTimes, currentLength \in Lengths :
         /\ ~(Stable(previousLength, currentLength)
                /\ stableCount + 1 >= StableThreshold)
         /\ Sleep(t)
         /\ lastSnap' = Snap("stability-check", currentLength)
         /\ recent' = Remember(currentLength)
         /\ stableCount' = IF Stable(previousLength, currentLength)
                           THEN stableCount + 1 ELSE 0
         /\ IF Stable(previousLength, currentLength)
            THEN streakSleeps' = streakSleeps + 1 /\ UNCHANGED streakFailed
            ELSE streakSleeps' = 1 /\ streakFailed' = FALSE
         /\ previousLength' = currentLength
    /\ UNCHANGED << spc, sret >>
    /\ UNCHANGED notStabVars

\* default, the read is the third stable one in a row: return it as "stable"
StabilityStable ==
    /\ spc = "select"
    /\ sleft > 0
    /\ \E t \in ReadTimes, currentLength \in Lengths :
         /\ Stable(previousLength, currentLength)
         /\ stableCount + 1 >= StableThreshold
         /\ sleft' = Elapse(sleft, t)
         /\ cleft' = Elapse(cleft, t)
         /\ stableCount' = stableCount + 1
         /\ recent' = Remember(currentLength)
         /\ sret' = Snap("stable", currentLength)
         /\ lastSnap' = sret'
    /\ spc' = "returned"
    /\ UNCHANGED << previousLength, streakSleeps, streakFailed >>
    /\ UNCHANGED notStabVars

StabilityNext ==
    \/ StabilityTimeout
    \/ StabilityInterrupted
    \/ StabilityReadFailed
    \/ StabilityCheck
    \/ StabilityStable

SpecStability == StabilityInit /\ [][StabilityNext]_vars

\* ============================================ claims on the stability loop

\* How many of the last reads, counted from the latest, each changed the
\* length by less than 5% against the read before it.
RECURSIVE StreakUpTo(_, _)
StreakUpTo(lengths, n) ==
    IF n < 2 THEN 0
    ELSE IF Stable(lengths[n - 1], lengths[n]) THEN 1 + StreakUpTo(lengths, n - 1)
    ELSE 0

Streak == StreakUpTo(recent, Len(recent))

\* C15: the loop ends on convergence: it never goes on past a third
\* consecutive read that changed the length by less than 5%; it returns that
\* read's snapshot staged "stable", whatever is left of the outer timeout;
\* when no read failed in between, that is three check intervals after the
\* read the lengths stay close to; and a return that is not "stable" comes
\* only when a context is done.
C15_StableAtThirdRead ==
    /\ spc = "select" => Streak < 3
    /\ (spc = "returned" /\ Streak >= 3) => sret = Snap("stable", recent[Len(recent)])
    /\ (spc = "returned" /\ sret.Stage = "stable") =>
          /\ Streak = 3
          /\ ~streakFailed => streakSleeps = 3
    /\ (spc = "returned" /\ sret.Stage # "stable") => sleft = 0

\* Lengths that moved, by less than 5% each time: stable at the third such
\* read, with time left before the outer timeout.
C15_Witness ==
    /\ spc = "returned"
    /\ sret.Stage = "stable"
    /\ sleft > 0
    /\ recent = << 1000, 1040, 1050, 1040 >>
    /\ streakSleeps = 3

\* ============================================= the content strategy selector
\* part_003:347-499, ExtractArticleWithMultipleStrategies and
\* selectBestResult.  A result is the length of its title, the length of its
\* content and its quality score; ScoreContentQuality's score is an input.

TitleLengths == { 0, 40 }
ContentLengths == { 0, 300, 1200, 6000 }
QualityScores == { 0, 25, 30, 38 }

ScrapeResponse(title, content, quality) ==
    [Title |-> title, Content |-> content, Quality |-> quality]

\* Quality.Score: quality.Score + 10, the bonus for structured data
StructuredDataBonus == 10
\* ExtractMetadataOnly's Quality.Score
MetadataOnlyScore == 10
\* result1.Quality.Score < 30
SimpleBelow == 30

SelectorInit ==
    /\ TiersAtRest
    /\ ImagesIdle
    /\ StabilityIdle
    /\ HandlerIdle
    /\ selpc = "jsonld"
    /\ found = FALSE
    /\ results = << >>
    /\ strategies = << >>
    /\ bestResult = NoBest
    /\ bestScore = -1
    /\ scores = << >>
    /\ selected = NoBest

notSelVars == << orchVars, browserVars, imageVars, stabVars, handlerVars >>

\* Strategy 0: ExtractJSONLD found an article with a headline; the content
\* is its body, or its description when there is no body.
StrategyJSONLD ==
    /\ selpc = "jsonld"
    /\ \E title \in TitleLengths, content \in ContentLengths, q \in QualityScores :
         /\ results' = Append(results,
                          ScrapeResponse(title, content, q + StructuredDataBonus))
         /\ strategies' = Append(strategies, "jsonld")
    /\ found' = TRUE
    /\ selpc' = "readability"
    /\ UNCHANGED << bestResult, bestScore, scores, selected >>
    /\ UNCHANGED notSelVars

\* Strategy 0 when ExtractJSONLD finds nothing
NoStructuredData ==
    /\ selpc = "jsonld"
    /\ selpc' = "readability"
    /\ UNCHANGED << found, results, strategies, bestResult, bestScore, scores,
                    selected >>
    /\ UNCHANGED notSelVars

\* len(result1.Content) == 0 || len(result1.Title) == 0 || result1.Quality.Score < 30
NeedsSimple(result1) ==
    result1.Content = 0 \/ result1.Title = 0 \/ result1.Quality < SimpleBelow

\* Strategy 1: ExtractArticle
StrategyReadability ==
    /\ selpc = "readability"
    /\ \E title \in TitleLengths, content \in ContentLengths, q \in QualityScores :
         LET result1 == ScrapeResponse(title, content, q)
         IN  /\ results' = Append(results, result1)
             /\ selpc' = IF NeedsSimple(result1) THEN "simple" ELSE "metadata"
    /\ strategies' = Append(strategies, "readability")
    /\ UNCHANGED << found, bestResult, bestScore, scores, selected >>
    /\ UNCHANGED notSelVars

\* Strategy 2: ExtractArticleSimple, which computes no quality
StrategySimple ==
    /\ selpc = "simple"
    /\ \E title \in TitleLengths, content \in ContentLengths :
         results' = Append(results, ScrapeResponse(title, content, 0))
    /\ strategies' = Append(strategies, "simple")
    /\ selpc' = "metadata"
    /\ UNCHANGED << found, bestResult, bestScore, scores, selected >>
    /\ UNCHANGED notSelVars

\* Only the content is looked at.
allEmpty_ContentOnly == \A i \in 1..Len(results) : results[i].Content = 0

\* part_003:422-428, no result so far has a title or content
allEmpty == \A i \in 1..Len(results) : results[i].Title = 0 /\ results[i].Content = 0

\* Strategy 3: ExtractMetadataOnly, when no result has a title or content
\* (its parse-error return, part_003:506-508, needs a failing read of the
\* string reader, which strings.NewReader never gives)
StrategyMetadataOnly ==
    /\ selpc = "metadata"
    /\ allEmpty
    /\ \E title \in TitleLengths :
         results' = Append(results, ScrapeResponse(title, 0, MetadataOnlyScore))
    /\ strategies' = Append(strategies, "metadata-only")
    /\ selpc' = "select"
    /\ UNCHANGED << found, bestResult, bestScore, scores, selected >>
    /\ UNCHANGED notSelVars

SkipMetadataOnly ==
    /\ selpc = "metadata"
    /\ ~allEmpty
    /\ selpc' = "select"
    /\ UNCHANGED << found, results, strategies, bestResult, bestScore, scores,
                    selected >>
    /\ UNCHANGED notSelVars

\* quality score, +20 with both title and content, + 1 point per 100
\* characters of content, at most 50
Composite(result) ==
    LET contentBonus == result.Content \div 100
    IN  result.Quality
          + (IF result.Title > 0 /\ result.Content > 0 THEN 20 ELSE 0)
          + (IF contentBonus > 50 THEN 50 ELSE contentBonus)

\* No bonus for the preferred strategy.
PreferenceBonus_None(strategy, score, result) == 0

\* strategy == "readability" && score >= bestScore-10 && len(result.Content) > 0
PreferenceBonus(strategy, score, result) ==
    IF strategy = "readability" /\ score >= bestScore - 10 /\ result.Content > 0
    THEN 5 ELSE 0

\* Whatever is within 10 points of the leader replaces it.
Better_Within10(score, result) == score >= bestScore - 10

\* Only a strictly higher score replaces the leader.
Better_StrictOnly(score, result) == score > bestScore

\* score > bestScore || (score == bestScore && len(result.Content) > len(best.Result.Content))
Better(score, result) ==
    \/ score > bestScore
    \/ score = bestScore /\ result.Content > bestResult.Result.Content

\* selectBestResult, one turn of its loop
SelectStep ==
    /\ selpc = "select"
    /\ Len(scores) < Len(results)
    /\ LET i == Len(scores) + 1
           result == results[i]
           strategy == strategies[i]
           composite == Composite(result)
           score == composite + PreferenceBonus(strategy, composite, result)
       IN  /\ scores' = Append(scores, [composite |-> composite, score |-> score])
           /\ IF Better(score, result)
              THEN /\ bestScore' = score
                   /\ bestResult' = [Result |-> result, Strategy |-> strategy]
              ELSE UNCHANGED << bestScore, bestResult >>
    /\ UNCHANGED << selpc, found, results, strategies, selected >>
    /\ UNCHANGED notSelVars

\* return best
SelectReturn ==
    /\ selpc = "select"
    /\ Len(scores) = Len(results)
    /\ selected' = bestResult
    /\ selpc' = "done"
    /\ UNCHANGED << found, results, strategies, bestResult, bestScore, scores >>
    /\ UNCHANGED notSelVars

SelectorNext ==
    \/ StrategyJSONLD
    \/ NoStructuredData
    \/ StrategyReadability
    \/ StrategySimple
    \/ StrategyMetadataOnly
    \/ SkipMetadataOnly
    \/ SelectStep
    \/ SelectReturn

SpecSelector == SelectorInit /\ [][SelectorNext]_vars

\* ===================================================== claims on the selector

\* The place of a strategy's result in results, 0 when it did not run.
IndexOf(strategy) ==
    IF \E i \in 1..Len(strategies) : strategies[i] = strategy
    THEN CHOOSE i \in 1..Len(strategies) : strategies[i] = strategy
    ELSE 0

Others(i) == (1..Len(results)) \ { i }

C17_Original ==
    (/\ selpc = "done"
     /\ ~found
     /\ results[IndexOf("readability")].Content > 0
     /\ \A i \in Others(IndexOf("readability")) :
           /\ scores[i].score - scores[IndexOf("readability")].score <= 10
           /\ scores[IndexOf("readability")].score - scores[i].score <= 10)
    => selected.Strategy = "readability"

\* C17: without structured data, a readability result with content gets the
\* 5-point preference bonus; it is returned when every competing result's
\* score is less than 5 points above readability's score before the bonus,
\* or exactly 5 above with content that is not longer; a competing result
\* further ahead is returned in its place.
C17_ReadabilityPreferred ==
    (/\ selpc = "done"
     /\ ~found
     /\ results[IndexOf("readability")].Content > 0)
    => LET r == IndexOf("readability")
           Behind(i) ==
              \/ scores[i].score < scores[r].composite + 5
              \/ /\ scores[i].score = scores[r].composite + 5
                 /\ results[i].Content <= results[r].Content
       IN  /\ scores[r].score = scores[r].composite + 5
           /\ (\A i \in Others(r) : Behind(i)) <=> selected.Strategy = "readability"

\* Readability returned against a simple result that is ahead of it before
\* the bonus.
C17_Witness ==
    /\ selpc = "done"
    /\ ~found
    /\ selected.Strategy = "readability"
    /\ selected.Result.Content > 0
    /\ IndexOf("simple") = 2
    /\ scores[2].score > scores[1].composite

\* ======================================================= the request handler
\* part_004:440-545, CloudRunHandler.Handler.  An error is its dynamic type
\* and its message, the message a sequence of fragments.

StatusOK == 200
StatusNoContent == 204
StatusBadRequest == 400
StatusUnauthorized == 401
StatusMethodNotAllowed == 405
StatusUnavailableForLegalReasons == 451
StatusInternalServerError == 500
StatusGatewayTimeout == 504

DefaultTimeoutMs == 300000
MaxTimeoutMs == 240000
MinTimeoutMs == 1000

Methods == { "GET", "OPTIONS", "POST" }

\* The url parameters of a request, and url.Parse on them.
URLParams == { "", "https://x.com/a", "https://x.com/%zz" }
InvalidURLFormat(rawURL) == rawURL = "https://x.com/%zz"

\* The timeout parameters of a request, and strconv.Atoi on them.
TimeoutParams == { "", "abc", "-5", "500", "5000", "999999" }
Atoi(str) ==
    CASE str = "-5" -> [ok |-> TRUE, n |-> -5]
      [] str = "500" -> [ok |-> TRUE, n |-> 500]
      [] str = "5000" -> [ok |-> TRUE, n |-> 5000]
      [] str = "999999" -> [ok |-> TRUE, n |-> 999999]
      [] OTHER -> [ok |-> FALSE, n |-> 0]

NoError == [type |-> "nil", err |-> << >>]
ErrorOf(type, message) == [type |-> type, err |-> message]

\* What ScrapeSmartWithTimeout returns as its error.
ScrapeErrors ==
    { NoError,
      ErrorOf("*models.CloudflareBlockError", << "blocked by Cloudflare: ", "x.com" >>),
      ErrorOf("*errors.errorString", << "context deadline exceeded" >>),
      ErrorOf("*fmt.wrapError",
              << "browser scrape failed: ", "context deadline exceeded" >>),
      ErrorOf("*fmt.wrapError",
              << "navigation failed: ", "context deadline exceeded",
                 " (Client.Timeout exceeded)" >>),
      ErrorOf("*errors.errorString", << "context canceled" >>),
      ErrorOf("*fmt.wrapError", << "browser scrape failed: ", "context canceled" >>),
      ErrorOf("*errors.errorString", << "deadline exceeded" >>),
      ErrorOf("*errors.errorString", << "insufficient content quality" >>) }

\* err.Error() == text
ErrorEquals(e, text) == e.err = << text >>

\* strings.Contains(err.Error(), text), for a text that is one fragment
ErrorContains(e, text) == \E i \in 1..Len(e.err) : e.err[i] = text

HandlerInit ==
    /\ TiersAtRest
    /\ ImagesIdle
    /\ StabilityIdle
    /\ SelectorIdle
    /\ hpc = "method"
    /\ method \in Methods
    /\ keyValid \in BOOLEAN
    /\ urlParam \in URLParams
    /\ timeoutStr \in TimeoutParams
    /\ timeoutMs = 0
    /\ scrapeRet = [type |-> "none", err |-> << >>]
    /\ status = 0

notHandlerVars == << orchVars, browserVars, imageVars, stabVars, selVars >>

\* if r.Method == "OPTIONS", if r.Method != "GET"
HandlerMethod ==
    /\ hpc = "method"
    /\ IF method = "OPTIONS" THEN status' = StatusNoContent /\ hpc' = "done"
       ELSE IF method # "GET" THEN status' = StatusMethodNotAllowed /\ hpc' = "done"
       ELSE UNCHANGED status /\ hpc' = "key"
    /\ UNCHANGED << method, keyValid, urlParam, timeoutStr, timeoutMs, scrapeRet >>
    /\ UNCHANGED notHandlerVars

\* if !h.validateAPIKey(requestKey)
HandlerValidateKey ==
    /\ hpc = "key"
    /\ IF ~keyValid
       THEN status' = StatusUnauthorized /\ hpc' = "done"
       ELSE UNCHANGED status /\ hpc' = "url"
    /\ UNCHANGED << method, keyValid, urlParam, timeoutStr, timeoutMs, scrapeRet >>
    /\ UNCHANGED notHandlerVars

\* if targetURL == "", if _, err := url.Parse(targetURL); err != nil
HandlerValidateURL ==
    /\ hpc = "url"
    /\ IF urlParam = "" \/ InvalidURLFormat(urlParam)
       THEN status' = StatusBadRequest /\ hpc' = "done"
       ELSE UNCHANGED status /\ hpc' = "timeout"
    /\ UNCHANGED << method, keyValid, urlParam, timeoutStr, timeoutMs, scrapeRet >>
    /\ UNCHANGED notHandlerVars

\* timeoutMs: the default, or the parameter when it is a number; at most
\* 240000 and at least 1000
RequestTimeoutMs(str) ==
    LET parsed == IF str # "" /\ Atoi(str).ok THEN Atoi(str).n ELSE DefaultTimeoutMs
        capped == IF parsed > MaxTimeoutMs THEN MaxTimeoutMs ELSE parsed
    IN  IF capped < MinTimeoutMs THEN MinTimeoutMs ELSE capped

HandlerTimeout ==
    /\ hpc = "timeout"
    /\ timeoutMs' = RequestTimeoutMs(timeoutStr)
    /\ hpc' = "scrape"
    /\ UNCHANGED << method, keyValid, urlParam, timeoutStr, scrapeRet, status >>
    /\ UNCHANGED notHandlerVars

\* result, err := h.scraper.ScrapeSmartWithTimeout(ctx, targetURL, timeoutMs)
HandlerScrape ==
    /\ hpc = "scrape"
    /\ scrapeRet' \in ScrapeErrors
    /\ hpc' = "respond"
    /\ UNCHANGED << method, keyValid, urlParam, timeoutStr, timeoutMs, status >>
    /\ UNCHANGED notHandlerVars

\* the status Handler writes for the error Scrape returned
StatusFor(e) ==
    IF e.type = "*models.CloudflareBlockError" THEN StatusUnavailableForLegalReasons
    ELSE IF e # NoError /\ ErrorContains(e, "context deadline exceeded")
         THEN StatusGatewayTimeout
    ELSE IF e # NoError THEN StatusInternalServerError
    ELSE StatusOK

HandlerRespond ==
    /\ hpc = "respond"
    /\ status' = StatusFor(scrapeRet)
    /\ hpc' = "done"
    /\ UNCHANGED << method, keyValid, urlParam, timeoutStr, timeoutMs, scrapeRet >>
    /\ UNCHANGED notHandlerVars

HandlerNext ==
    \/ HandlerMethod
    \/ HandlerValidateKey
    \/ HandlerValidateURL
    \/ HandlerTimeout
    \/ HandlerScrape
    \/ HandlerRespond

SpecHandler == HandlerInit /\ [][HandlerNext]_vars

\* ====================================================== claims on the handler

Scraped == scrapeRet.type # "none"

\* C20: once Scrape has returned the handler writes one status, and nothing
\* before: 451 for a CloudflareBlockError, 504 for any other error whose
\* message contains "context deadline exceeded", 500 for every other error
\* and 200 when there is no error.
C20_StatusMapping ==
    /\ (Scraped /\ hpc # "done") => status = 0
    /\ (Scraped /\ hpc = "done") =>
          /\ scrapeRet.type = "*models.CloudflareBlockError" => status = 451
          /\ (/\ scrapeRet.type \notin { "*models.CloudflareBlockError", "nil" }
              /\ \E i \in 1..Len(scrapeRet.err) :
                    scrapeRet.err[i] = "context deadline exceeded")
                => status = 504
          /\ (/\ scrapeRet.type \notin { "*models.CloudflareBlockError", "nil" }
              /\ \A i \in 1..Len(scrapeRet.err) :
                    scrapeRet.err[i] # "context deadline exceeded")
                => status = 500
          /\ scrapeRet.type = "nil" => status = 200

\* A wrapped deadline error answered with 504, under the capped timeout.
C20_Witness ==
    /\ hpc = "done"
    /\ scrapeRet.type = "*fmt.wrapError"
    /\ Len(scrapeRet.err) = 3
    /\ status = 504
    /\ timeoutMs = 240000

\* ====================================== claims on the browser tier's capture

\* The places of one capture attempt, from captureHTMLSnapshots' navigation
\* to its return.
CapturePhases == { "periodic", "initial", "challenge", "waits", "consent",
                   "afterConsent", "scroll", "afterScroll", "stability",
                   "fallbacks", "captured" }

\* C21: navigateAndExtract allows 3 capture attempts with at least 60s
\* remaining, 2 with less than 60s and 1 with less than 30s, and
\* retryNavigation never makes more attempts than allowed.
C21_AttemptsBounded ==
    [][/\ (bpc = "extract" /\ bpc' = "attempt") =>
             maxRetries' = IF bleft < 30000 THEN 1 ELSE IF bleft < 60000 THEN 2 ELSE 3
       /\ bpc' \in CapturePhases \cup { "retried" } => attempt' + 1 <= maxRetries'
       /\ bpc' = "attempt" => attempt' < maxRetries']_vars

\* retryNavigation has returned after its third attempt.
C21_Witness ==
    /\ bpc = "retried"
    /\ maxRetries = 3
    /\ attempt = 2

\* The snapshots getBestHTML can choose: not a short application-error
\* page, and of a stage above its starting priority of -1.
Eligible(snaps) ==
    { i \in 1 .. Len(snaps) :
        /\ ~(LooksLikeApplicationError(snaps[i].HTML) /\ snaps[i].Length < 1000)
        /\ stagePriority(snaps[i].Stage) > -1 }

\* snap is a best one of snaps: none that can be chosen has a higher stage
\* priority, or the same and a longer text.
BestOf(snap, snaps) ==
    IF Eligible(snaps) = {} THEN snap = NoSnapshot
    ELSE /\ \E i \in Eligible(snaps) : snaps[i] = snap
         /\ \A j \in Eligible(snaps) :
               \/ stagePriority(snaps[j].Stage) < stagePriority(snap.Stage)
               \/ /\ stagePriority(snaps[j].Stage) = stagePriority(snap.Stage)
                  /\ snaps[j].Length <= snap.Length

NotExcluded(snaps) ==
    { i \in 1 .. Len(snaps) :
        ~(LooksLikeApplicationError(snaps[i].HTML) /\ snaps[i].Length < 1000) }

\* C23: for the non-empty list retryNavigation hands back, getBestHTML
\* returns a snapshot that is not a short application-error page, of the
\* highest stage priority among those and the longest of that priority; it
\* returns nothing only if every snapshot of the list is such an error page.
C23_BestByPriority ==
    (bpc = "retried" /\ Len(rnSnapshots) > 0) =>
        LET best == getBestHTML(rnSnapshots)
            kept == NotExcluded(rnSnapshots)
        IN  /\ best = NoSnapshot <=> kept = {}
            /\ kept # {} =>
                  /\ \E i \in kept : rnSnapshots[i] = best
                  /\ \A j \in kept :
                        \/ stagePriority(rnSnapshots[j].Stage) < stagePriority(best.Stage)
                        \/ /\ stagePriority(rnSnapshots[j].Stage) = stagePriority(best.Stage)
                           /\ rnSnapshots[j].Length <= best.Length

\* C24: an attempt whose navigation left a document with text in the
\* browser returns at least one snapshot, also when the deadline expires
\* before the attempt ends.
C24_CaptureEarly ==
    (bpc = "captured" /\ navPage.len > 0) => Len(snapshots) > 0

IsPrefix(a, b) == Len(a) <= Len(b) /\ SubSeq(b, 1, Len(a)) = a

\* The place of a stage in the pipeline of captureHTMLSnapshots.
StageRank(stage) ==
    CASE stage = "periodic" -> 0
      [] stage = "initial" -> 1
      [] stage = "after-consent" -> 2
      [] stage = "after-scroll" -> 3
      [] stage \in { "stable", "stable-timeout", "stable-interrupted" } -> 4
      [] OTHER -> 5

\* C25: within one attempt the snapshot log only grows at its end, and its
\* stages stand in the order of the pipeline: periodic snapshots, initial,
\* after-consent, after-scroll, one of stable / stable-timeout /
\* stable-interrupted; every stage but periodic at most once.
C25_StageOrder ==
    [][/\ bpc \in CapturePhases \ { "captured" } => IsPrefix(snapshots, snapshots')
       /\ \A i, j \in 1 .. Len(snapshots') :
             i < j =>
                /\ StageRank(snapshots'[i].Stage) <= StageRank(snapshots'[j].Stage)
                /\ StageRank(snapshots'[i].Stage) = StageRank(snapshots'[j].Stage)
                      => snapshots'[i].Stage = "periodic"]_vars

\* An attempt that took a snapshot at every stage.
C25_Witness ==
    /\ bpc = "captured"
    /\ Len(snapshots) = 5
    /\ [i \in 1 .. 5 |-> snapshots[i].Stage] =
         << "periodic", "initial", "after-consent", "after-scroll", "stable" >>

FallbackOrder == << "minimalNavigation", "fetchHTMLViaJS", "captureSnapshotFallback" >>

Stages(snaps) == { snaps[i].Stage : i \in 1 .. Len(snaps) }

\* C26: the last-resort fallbacks run only when the attempt has no snapshot
\* and kept no HTML, in the order minimal navigation, in-page fetch, final
\* capture, each only when the ones before it gave no HTML; with a snapshot
\* in the log none runs and the log stays as it is.
C26_FallbackOrder ==
    [][bpc = "fallbacks" =>
         /\ IsPrefix(fallbacksRun', FallbackOrder)
         /\ fallbacksRun' # << >> =>
               /\ snapshots = << >>
               /\ initialHTML = NoDoc /\ afterConsentHTML = NoDoc /\ afterScrollHTML = NoDoc
               /\ Len(snapshots') <= 1
         /\ "minimal-fallback" \in Stages(snapshots') <=> Len(fallbacksRun') = 1
         /\ "js-fetch-fallback" \in Stages(snapshots') =>  Len(fallbacksRun') = 2
         /\ "final-fallback" \in Stages(snapshots') => Len(fallbacksRun') = 3
         /\ (Len(fallbacksRun') = 2 /\ snapshots' # << >>) =>
               Stages(snapshots') = { "js-fetch-fallback" }
         /\ (Len(fallbacksRun') = 3 /\ snapshots' # << >>) =>
               Stages(snapshots') = { "final-fallback" }
         /\ snapshots # << >> => (fallbacksRun' = << >> /\ snapshots' = snapshots)]_vars

\* The in-page fetch gave the attempt's only snapshot, after the minimal
\* navigation gave none.
C26_Witness ==
    /\ bpc = "captured"
    /\ fallbacksRun = << "minimalNavigation", "fetchHTMLViaJS" >>
    /\ Len(snapshots) = 1
    /\ snapshots[1].Stage = "js-fetch-fallback"

\* C27: the periodic loop only adds snapshots and takes none of the
\* pipeline's time: the initial capture starts with the time that was left
\* when the loop was entered.
C27_PeriodicAdditive ==
    [][bpc = "periodic" => (IsPrefix(snapshots, snapshots') /\ bleft' = bleft)]_vars

\* ------------------------------------------- claims on the orchestrator's tiers

\* The static-fetch tier has returned and phase 1 failed: the tier's own
\* error, or (scraper.go) HTML that is empty or below the floor of 100
\* trimmed characters, or an extraction with neither title nor content.
StaticFailed ==
    /\ fetchCalls = 1
    /\ httpErr # Nil
    /\ httpErr = MinimalHTMLError =>
          (httpHTML.len = 0 \/ httpHTML.trimmed < 100)

\* C28: within one request no tier is called a second time: a call of the
\* static-fetch tier is the first call of any tier, a call of the browser
\* tier is its first and comes only when the static-fetch tier was skipped
\* or has failed, and when the static-fetch tier has returned a success the
\* request ends with that result and without the browser tier.
C28_NoRetryAtOrchestrator ==
    [][ /\ fetchCalls' > fetchCalls =>
              (fetchCalls = 0 /\ browserCalls = 0 /\ fetchCalls' = 1)
        /\ browserCalls' > browserCalls =>
              /\ browserCalls = 0
              /\ browserCalls' = 1
              /\ pc' = "browsing"
              /\ fetchCalls' = 0 \/ StaticFailed'
        /\ (fetchCalls' = 1 /\ pc' # "fetching" /\ httpErr' = Nil) =>
              (browserCalls' = 0 /\ pc' = "done" /\ ret'.type = "ok")
      ]_vars

C28_Witness ==
    /\ impl = "scraper"
    /\ pc = "done"
    /\ StaticFailed
    /\ httpErr = MinimalHTMLError
    /\ browserCalls = 1
    /\ ret.type = "ok"

\* ------------------------------------------- claims on the strategy selector

\* The metadata-only strategy was run.
MetadataOnlyRan == \E i \in 1..Len(strategies) : strategies[i] = "metadata-only"

\* C29: once the strategies have run, the metadata-only strategy was
\* attempted if and only if every strategy run before it gave both an empty
\* title and an empty content, and its result has empty content and the
\* quality score 10.
C29_MetadataOnlyLastResort ==
    selpc \in {"select", "done"} =>
        /\ MetadataOnlyRan <=>
              \A i \in 1..Len(results) :
                 strategies[i] # "metadata-only" =>
                    (results[i].Title = 0 /\ results[i].Content = 0)
        /\ \A i \in 1..Len(results) :
              strategies[i] = "metadata-only" =>
                 /\ i = Len(results)
                 /\ results[i].Content = 0
                 /\ results[i].Quality = 10

\* The metadata-only result, with the page's title, is what is returned.
C29_Witness ==
    /\ selpc = "done"
    /\ MetadataOnlyRan
    /\ selected.Strategy = "metadata-only"
    /\ selected.Result = [Title |-> 40, Content |-> 0, Quality |-> 10]

\* quality score, +20 with both title and content, + min(50, len/100)
CompositeScore(r) ==
    r.Quality
      + (IF r.Title > 0 /\ r.Content > 0 THEN 20 ELSE 0)
      + (IF r.Content \div 100 > 50 THEN 50 ELSE r.Content \div 100)

\* C30 as stated: the returned result has the highest composite score, and
\* among results of equal composite score the longer content.
C30_Original ==
    selpc = "done" =>
        LET k == IndexOf(selected.Strategy)
        IN  /\ k > 0
            /\ selected.Result = results[k]
            /\ \A i \in Others(k) :
                  \/ CompositeScore(results[i]) < CompositeScore(results[k])
                  \/ /\ CompositeScore(results[i]) = CompositeScore(results[k])
                     /\ results[i].Content <= results[k].Content

\* The score selectBestResult ranks result i by: the composite score, and 5
\* more for the readability result with content that is not more than 10
\* points behind the JSON-LD result ranked before it.
RankingScore(i) ==
    CompositeScore(results[i])
      + (IF /\ strategies[i] = "readability"
            /\ results[i].Content > 0
            /\ \A j \in 1..(i - 1) :
                  CompositeScore(results[i]) >= CompositeScore(results[j]) - 10
         THEN 5 ELSE 0)

\* C30: the returned result has the highest ranking score, the composite
\* score plus the readability preference bonus; among results of equal
\* ranking score the one with the longer content, and among those of equal
\* content length the one whose strategy ran first.
C30_HighestRankingScore ==
    selpc = "done" =>
        LET k == IndexOf(selected.Strategy)
        IN  /\ k > 0
            /\ selected.Result = results[k]
            /\ \A i \in 1..Len(results) : scores[i].score = RankingScore(i)
            /\ \A i \in Others(k) :
                  \/ RankingScore(i) < RankingScore(k)
                  \/ /\ RankingScore(i) = RankingScore(k)
                     /\ results[i].Content < results[k].Content
                  \/ /\ RankingScore(i) = RankingScore(k)
                     /\ results[i].Content = results[k].Content
                     /\ k < i

\* A later result replaced the leader at equal ranking score by its longer
\* content.
C30_Witness ==
    /\ selpc = "done"
    /\ IndexOf(selected.Strategy) > 1
    /\ \E i \in 1..(IndexOf(selected.Strategy) - 1) :
          /\ scores[i].score = scores[IndexOf(selected.Strategy)].score
          /\ results[i].Content < selected.Result.Content

\* ================================== claims on the image engine's filters

\* The Open Graph image and the structured-data image of the document, each
\* with a URL that names an image file.
CuratedImages == extractOgImage(document) \o extractJSONLDImage(document)

\* The candidate is in the list that is scored and sorted.
Admitted(c) ==
    \E k \in DOMAIN filtered :
        filtered[k].URL = c.URL /\ filtered[k].Source = c.Source

\* C31: when the engine has filtered, the Open Graph image and the
\* structured-data image of the document, if their URLs name an image file,
\* are in the list that is ranked, whatever their declared dimensions.
C31_CuratedAlwaysAdmitted ==
    ipc = "done" =>
        \A k \in DOMAIN CuratedImages : Admitted(CuratedImages[k])

\* The in-article candidates with a bad hint that nothing but the bad hint
\* can disqualify: with both dimensions known they are landscape, at least
\* 600 wide, at least 100 on the short side and of no ad size.
HintedOnly ==
    { k \in DOMAIN allCandidates :
        LET c == allCandidates[k]
        IN  /\ c.InArticle
            /\ c.BadHint
            /\ (c.Width > 0 /\ c.Height > 0) =>
                  /\ c.Width > c.Height
                  /\ c.Width >= 600
                  /\ c.Height >= 100
                  /\ << c.Width, c.Height >> \notin config.AdSizes }

\* Both dimensions are known and the short side is under 200.
KnownSmall(c) ==
    c.Width > 0 /\ c.Height > 0 /\ (c.Width < 200 \/ c.Height < 200)

\* The candidate is in the filtered list, scored.
Kept(c) == \E k \in DOMAIN filtered : filtered[k].URL = c.URL /\ filtered[k].BadHint

ImgElements == { n \in DOMAIN document.nodes : document.nodes[n].tag = "img" }

\* An ancestor of the element matches an exclusion keyword.
HasExcludedAncestor(n) ==
    \E p \in Ancestors(document, n) : isExcludedSection(document, p)

\* The img element's candidate passed the filter and its image is returned.
InOutput(n) ==
    /\ \E k \in DOMAIN filtered :
          /\ filtered[k].Source = "img"
          /\ extractImgTag(document, n) # << >>
          /\ filtered[k].URL = extractImgTag(document, n)[1].URL
    /\ Returned(document, n)

ReadContainers ==
    { c \in DOMAIN document.nodes :
        /\ c \notin document.removed
        /\ IsArticleContainer(document, c)
        /\ ~\E p \in Ancestors(document, c) : isExcludedSection(document, p)
        /\ ~isInLinkList(document, c) }

ExpiresDuringBackoff ==
    /\ bpc = "attempt"
    /\ attempt > 0
    /\ Elapse(bleft, (2 ^ attempt) * Second) = 0

\* C34: when ctx is done during the backoff wait between two capture
\* attempts, retryNavigation starts no further capture attempt.
C34_StopsDuringBackoff ==
    [][ExpiresDuringBackoff => bpc' # "periodic"]_vars

\* C35: whenever scrapeWithOptions has returned HTML with no error, that
\* HTML is not empty and does not match the Cloudflare-block pattern,
\* whether it comes from the primary URL or from an alternate URL; after the
\* alternates the primary's HTML is never returned.
C35_NoBlockPageReturned ==
    (bpc = "done" /\ bret.type = "ok") =>
        /\ bret.err = Nil
        /\ bret.html.raw > 0
        /\ ~bret.html.cfBlock
        /\ urlIndex = 0 => bret.html = primaryHTML
        /\ (urlIndex >= 1 /\ alternates >= 1) =>
              (primaryHTML.raw = 0 \/ primaryHTML.cfBlock)

\* The primary URL gave a block page and an alternate URL's HTML is
\* returned.
C35_Witness ==
    /\ bpc = "done"
    /\ bret.type = "ok"
    /\ urlIndex >= 1
    /\ primaryHTML.cfBlock
    /\ bret.html = Article

\* C36: every snapshot in the snapshot log of a capture attempt has a
\* Length equal to the trimmed length of its HTML, and that length is
\* greater than zero.
C36_SnapshotsHaveText ==
    \A i \in 1 .. Len(snapshots) :
        /\ snapshots[i].Length = snapshots[i].HTML.len
        /\ snapshots[i].Length > 0

\* C37: captureHTMLSnapshots returns an error only together with an empty
\* snapshot log, and retryNavigation starts a further attempt only after an
\* attempt that returned no snapshot: an attempt that returned at least one
\* is the last, and its snapshots are what retryNavigation returns.
C37_RetryOnlyAfterEmptyAttempt ==
    [][bpc = "captured" =>
         /\ captureErr # Nil => Len(snapshots) = 0
         /\ bpc' = "attempt" => (Len(snapshots) = 0 /\ attempt' = attempt + 1)
         /\ Len(snapshots) > 0 =>
               (bpc' = "retried" /\ rnSnapshots' = snapshots /\ rnErr' = Nil)
      ]_vars

\* A second attempt, after a first that returned nothing, has returned a
\* snapshot and is the last.
C37_Witness ==
    /\ bpc = "retried"
    /\ attempt = 1
    /\ maxRetries = 3
    /\ Len(rnSnapshots) > 0
    /\ rnErr = Nil

\* ------------------------------------ claims on the stability loop's exit

\* C38: when the stability loop has returned a snapshot on a deadline, its
\* stage is "stable-interrupted" if the caller's ctx is done and
\* "stable-timeout" if only the stability window has passed.
C38_StageByDeadline ==
    (/\ spc = "returned"
     /\ sret # NoSnap
     /\ sret.Stage \in { "stable-timeout", "stable-interrupted" })
    => /\ sleft = 0
       /\ sret.Stage = (IF cleft = 0 THEN "stable-interrupted" ELSE "stable-timeout")

\* ------------------------------------------- claims on the skipped tier 1

\* scraper.go's ScrapeSmart has passed phase 1 without calling the
\* static-fetch tier.
TierOneSkipped ==
    /\ impl = "scraper"
    /\ ~URLParseFails(targetURL)
    /\ pc \in {"phase2", "browsing", "done"}
    /\ fetchCalls = 0

\* C39: whenever tier 1 is skipped, its budget-adjusted timeout being under
\* 1 second, tier 2 is not called either and ScrapeSmart returns the
\* insufficient-time-budget error.
C39_SkippedMeansNoBrowser ==
    TierOneSkipped =>
        /\ httpTimeout < 1000
        /\ browserCalls = 0
        /\ pc # "browsing"
        /\ pc = "done" => ret = ReturnError(InsufficientBudgetError)

C39_Witness ==
    /\ TierOneSkipped
    /\ pc = "done"
    /\ hasDeadline
    /\ remainingAtStart > 0
    /\ httpTimeout > 0
    /\ ret = ReturnError(InsufficientBudgetError)
====
